---------------------------- MODULE Spec2Model ----------------------------
(***************************************************************************)
(* Frostvakt: the ETL orchestrator (src/src/main.py), its persistence      *)
(* layer, the notification manager (src/src/notification_manager.py) and   *)
(* the frost-risk classifier (src/src/advanced_frost_analyzer.py).         *)
(*                                                                         *)
(* Conventions.                                                            *)
(*  - A value that may be None/NaN/NaT is a sequence of length 0 or 1:     *)
(*    None is <<>> and the value v is <<v>>.                               *)
(*  - Temperatures are tenths of a degree Celsius, wind speeds tenths of   *)
(*    m/s; cloud cover and humidity are whole percent; the cloud factor    *)
(*    is in tenths (1.5 is 15).                                            *)
(*  - valid_time and forecast_issue_time are whole hours on one time       *)
(*    axis; the hour of day of a valid_time t is t % 24.                   *)
(*  - Risk levels are written without diacritics: "hog", "medel", "lag",   *)
(*    "ingen", "okand".                                                    *)
(***************************************************************************)
EXTENDS Integers, Sequences, FiniteSets, TLC

VARIABLES
    \* ---- classifier harness
    args,               \* the arguments of one calculate_advanced_frost_risk call
    result,             \* <<>> before the call, <<[level, numeric]>> after it
    \* ---- the relational store (one SQLite file)
    schema,             \* table name -> set of column names, for the tables that exist
    weather_hourly,     \* set of rows
    frost_warnings,     \* set of rows
    heartbeat,          \* sequence of rows (append only)
    seq,                \* sqlite_sequence: table name -> last AUTOINCREMENT id
    \* ---- persistence harness (direct calls of the load_* functions)
    df,                 \* the table handed to the calls of the idempotence harness
    calls,              \* number of load_* calls made so far
    log,                \* one record per load_* call made: what it was given, returned and left behind
    submitted,          \* every <<valid_time, dataset, forecast_issue_time>> ever handed to load_weather_data
    \* ---- one orchestrator process (main)
    pc,                 \* position of main()
    run_id,             \* number of the current invocation (0 before the first)
    cfg,                \* the configuration main() loaded
    email_notifier,     \* TRUE when NotificationManager.email_notifier is not None
    sms_notifier,       \* TRUE when NotificationManager.sms_notifier is not None
    df_fc,              \* the forecast table of the run
    warnings_only,      \* its rows with frost_warning
    errors,             \* stats['errors']
    exit_code,          \* <<>> while running or after a normal return, else <<status>>
    hist                \* history of the run: which steps ran and what they did

clsVars   == <<args, result>>
storeVars == <<schema, weather_hourly, frost_warnings, heartbeat, seq>>
harnVars  == <<df, calls, log, submitted>>
mainVars  == <<pc, run_id, cfg, email_notifier, sms_notifier, df_fc, warnings_only,
               errors, exit_code, hist>>
vars      == <<clsVars, storeVars, harnVars, mainVars>>

----------------------------------------------------------------------------
(* None / NaN *)
None      == <<>>
Some(v)   == <<v>>
isna(x)   == x = <<>>
Val(x)    == x[1]
Opt(S)    == {None} \cup {Some(v) : v \in S}

----------------------------------------------------------------------------
(* advanced_frost_analyzer.py *)

\* A factor that counts a cloud cover up to 80 as half clear (variant for C12).
CloudFactorHalfClearTo80(cloud_cover) ==
    IF isna(cloud_cover) THEN 10
    ELSE IF Val(cloud_cover) <= 20 THEN 15
    ELSE IF Val(cloud_cover) <= 80 THEN 12
    ELSE 7

\* A factor that grows with the cloud cover (variant for C30).
CloudFactorOvercastHighest(cloud_cover) ==
    IF isna(cloud_cover) THEN 10
    ELSE IF Val(cloud_cover) <= 20 THEN 7
    ELSE IF Val(cloud_cover) <= 50 THEN 10
    ELSE IF Val(cloud_cover) <= 80 THEN 12
    ELSE 15

calculate_cloud_impact_factor(cloud_cover) ==
    IF isna(cloud_cover) THEN 10
    ELSE IF Val(cloud_cover) <= 20 THEN 15
    ELSE IF Val(cloud_cover) <= 50 THEN 12
    ELSE IF Val(cloud_cover) <= 80 THEN 10
    ELSE 7

Risk(level, numeric) == [level |-> level, numeric |-> numeric]

\* A daytime filter without the test of the temperature (variant for C10).
DaytimeFilterNoTempTest(temperature, hour_of_day) ==
    /\ ~isna(hour_of_day)
    /\ 8 <= Val(hour_of_day) /\ Val(hour_of_day) <= 17

\* A daytime filter that ends at 16 (variant for C11).
DaytimeFilterUntil16(temperature, hour_of_day) ==
    /\ ~isna(hour_of_day)
    /\ 8 <= Val(hour_of_day) /\ Val(hour_of_day) <= 16
    /\ Val(temperature) > 0

\* A daytime filter for the temperatures at or below 0 (variant for C29).
DaytimeFilterAtFrost(temperature, hour_of_day) ==
    /\ ~isna(hour_of_day)
    /\ 8 <= Val(hour_of_day) /\ Val(hour_of_day) <= 17
    /\ Val(temperature) <= 0

\* The daytime filter of calculate_advanced_frost_risk: (08-17) at plus degrees.
DaytimeFilter(temperature, hour_of_day) ==
    /\ ~isna(hour_of_day)
    /\ 8 <= Val(hour_of_day) /\ Val(hour_of_day) <= 17
    /\ Val(temperature) > 0

\* A check of missing values that lets a freezing temperature through when the
\* wind speed is missing (variant for C13).
MissingInputUnlessFreezing(temperature, wind_speed) ==
    \/ isna(temperature)
    \/ isna(wind_speed) /\ Val(temperature) > 0

\* if pd.isna(temperature) or pd.isna(wind_speed)
MissingInput(temperature, wind_speed) == isna(temperature) \/ isna(wind_speed)

calculate_advanced_frost_risk(temperature, wind_speed, cloud_cover, humidity, hour_of_day) ==
    IF MissingInput(temperature, wind_speed) THEN Risk("okand", 0)
    ELSE IF DaytimeFilter(temperature, hour_of_day) THEN Risk("ingen", 0)
    ELSE IF Val(temperature) <= 0 THEN Risk("hog", 3)
    ELSE LET cloud_factor == calculate_cloud_impact_factor(cloud_cover)
             temp_limit   == IF cloud_factor >= 14 THEN 30
                             ELSE IF cloud_factor >= 11 THEN 20 ELSE 10
             risk         == IF cloud_factor >= 14 THEN Risk("lag", 1)
                             ELSE Risk("medel", 2)
         IN  IF Val(temperature) <= temp_limit /\ Val(wind_speed) < 40 THEN risk
             ELSE IF /\ ~isna(humidity)
                     /\ Val(temperature) <= 20
                     /\ Val(wind_speed) < 30
                     /\ Val(humidity) > 85
                  THEN Risk("medel", 2)
             ELSE Risk("ingen", 0)

----------------------------------------------------------------------------
(* Tables handed to the analyzer and to the persistence layer.             *)
(* A table (DataFrame) is a sequence of rows.  The columns precipitation,  *)
(* precipitation_probability, horizon_hours and frost_details are carried  *)
(* through unchanged by every operation below and are left out.            *)

RawRow(valid_time, dataset, forecast_issue_time, temperature_2m, wind_speed_10m,
       cloud_cover, relative_humidity_2m, rid) ==
    [valid_time |-> valid_time, dataset |-> dataset,
     forecast_issue_time |-> forecast_issue_time,
     temperature_2m |-> temperature_2m, wind_speed_10m |-> wind_speed_10m,
     cloud_cover |-> cloud_cover, relative_humidity_2m |-> relative_humidity_2m,
     run_id |-> rid]

\* One row of analyze_dataframe_advanced: the raw row with the frost columns added.
AnalyzeRow(row, has_humidity) ==
    LET humidity    == IF has_humidity THEN row.relative_humidity_2m ELSE None
        hour_of_day == Some(row.valid_time % 24)
        risk        == calculate_advanced_frost_risk(row.temperature_2m, row.wind_speed_10m,
                                                     row.cloud_cover, humidity, hour_of_day)
    IN  [valid_time |-> row.valid_time, dataset |-> row.dataset,
         forecast_issue_time |-> row.forecast_issue_time,
         temperature_2m |-> row.temperature_2m, wind_speed_10m |-> row.wind_speed_10m,
         cloud_cover |-> row.cloud_cover,
         relative_humidity_2m |-> row.relative_humidity_2m,
         run_id |-> row.run_id,
         frost_risk_level |-> risk.level,
         frost_risk_numeric |-> risk.numeric,
         frost_warning |-> (risk.numeric > 0)]

analyze_dataframe_advanced(d) ==
    LET has_humidity == \E i \in 1..Len(d) : ~isna(d[i].relative_humidity_2m)
    IN  [i \in 1..Len(d) |-> AnalyzeRow(d[i], has_humidity)]

\* df[df['frost_warning'] == True]
WarningRows(d) == SelectSeq(d, LAMBDA r : r.frost_warning)

----------------------------------------------------------------------------
(* main.py: the schema *)

WeatherColumns ==
    {"id", "valid_time", "temperature_2m", "relative_humidity_2m", "precipitation",
     "wind_speed_10m", "precipitation_probability", "cloud_cover", "dataset",
     "forecast_issue_time", "horizon_hours", "run_id", "created_at"}

FrostColumns ==
    {"id", "valid_time", "temperature_2m", "wind_speed_10m",
     "frost_risk_level", "frost_risk_numeric", "dataset", "forecast_issue_time",
     "horizon_hours", "run_id", "created_at"}

HeartbeatColumns == {"id", "run_id", "status", "timestamp"}

\* CREATE TABLE IF NOT EXISTS, for the three production tables.
create_database_tables(sch) ==
    LET created == [t \in {"weather_hourly", "frost_warnings", "heartbeat"} |->
                       IF t = "weather_hourly" THEN WeatherColumns
                       ELSE IF t = "frost_warnings" THEN FrostColumns
                       ELSE HeartbeatColumns]
    IN  [t \in DOMAIN created \cup DOMAIN sch |->
            IF t \in DOMAIN sch THEN sch[t] ELSE created[t]]

\* The columns the two insert statements name.
INSERT_WEATHER_SQL ==
    {"valid_time", "temperature_2m", "relative_humidity_2m", "precipitation",
     "wind_speed_10m", "precipitation_probability", "cloud_cover", "dataset",
     "forecast_issue_time", "horizon_hours", "run_id"}

INSERT_FROST_WARNING_SQL ==
    {"valid_time", "temperature_2m", "wind_speed_10m", "cloud_cover", "frost_risk_level",
     "frost_risk_numeric", "dataset", "forecast_issue_time", "horizon_hours",
     "run_id", "created_at"}

\* The statement can be prepared: its table exists and has every column it names.
Prepares(sch, table, columns) == table \in DOMAIN sch /\ columns \subseteq sch[table]

\* The row a statement stores for one record of a table.
WeatherRecord(r, id) ==
    [id |-> id, valid_time |-> r.valid_time, dataset |-> r.dataset,
     forecast_issue_time |-> r.forecast_issue_time,
     temperature_2m |-> r.temperature_2m, wind_speed_10m |-> r.wind_speed_10m,
     cloud_cover |-> r.cloud_cover, relative_humidity_2m |-> r.relative_humidity_2m,
     run_id |-> r.run_id]

FrostRecord(r, id) ==
    [id |-> id, valid_time |-> r.valid_time, dataset |-> r.dataset,
     forecast_issue_time |-> r.forecast_issue_time,
     temperature_2m |-> r.temperature_2m, wind_speed_10m |-> r.wind_speed_10m,
     cloud_cover |-> r.cloud_cover,
     frost_risk_level |-> r.frost_risk_level,
     frost_risk_numeric |-> r.frost_risk_numeric,
     run_id |-> r.run_id]

\* An insert that leaves a conflicting row in place (variant for C9).
PlainInsert(rows, rec) == rows \cup {rec}

\* INSERT OR REPLACE under UNIQUE(valid_time, dataset): the conflicting row is
\* deleted and the new row is stored under a fresh AUTOINCREMENT id.
InsertOrReplace(rows, rec) ==
    {x \in rows : ~(x.valid_time = rec.valid_time /\ x.dataset = rec.dataset)} \cup {rec}

----------------------------------------------------------------------------
(* main.py: load_weather_data and load_frost_warnings *)

\* Both functions first rewrite valid_time and forecast_issue_time with
\* strftime("%Y-%m-%d %H:%M:%S"): fixed-width strings whose order is the order of
\* time.  Times of this model are whole hours, which the rewriting keeps apart
\* and in order, so the hour stands for its string; None stays None.

\* sort_values(['valid_time', 'forecast_issue_datetime'], ascending=[True, False]):
\* NaT sorts last in its valid_time; the sort is stable.
IssueKey(r) == IF isna(r.forecast_issue_time) THEN 0 - 1 ELSE Val(r.forecast_issue_time)

SortsBefore(a, b) ==
    \/ a.valid_time < b.valid_time
    \/ a.valid_time = b.valid_time /\ IssueKey(a) > IssueKey(b)

RECURSIVE InsertSorted(_, _)
InsertSorted(s, x) ==
    IF s = <<>> THEN <<x>>
    ELSE IF SortsBefore(x, Head(s)) THEN <<x>> \o s
    ELSE <<Head(s)>> \o InsertSorted(Tail(s), x)

RECURSIVE sort_values(_)
sort_values(d) ==
    IF d = <<>> THEN <<>>
    ELSE InsertSorted(sort_values(SubSeq(d, 1, Len(d) - 1)), d[Len(d)])

\* GroupBy.first(): per column, the first value of the group that is not null.
FirstNotNull(g, col) ==
    LET present == {i \in 1..Len(g) : ~isna(g[i][col])}
    IN  IF present = {} THEN None
        ELSE g[CHOOSE i \in present : \A j \in present : i <= j][col]

GroupFirst(g) ==
    [g[1] EXCEPT !.forecast_issue_time  = FirstNotNull(g, "forecast_issue_time"),
                 !.temperature_2m       = FirstNotNull(g, "temperature_2m"),
                 !.wind_speed_10m       = FirstNotNull(g, "wind_speed_10m"),
                 !.cloud_cover          = FirstNotNull(g, "cloud_cover"),
                 !.relative_humidity_2m = FirstNotNull(g, "relative_humidity_2m")]

\* groupby('valid_time').first().reset_index() of a sorted table: one row per
\* valid_time, in ascending order of valid_time.
RECURSIVE groupby_first(_)
groupby_first(d) ==
    IF d = <<>> THEN <<>>
    ELSE LET t    == d[1].valid_time
             g    == SelectSeq(d, LAMBDA r : r.valid_time = t)
             rest == SelectSeq(d, LAMBDA r : r.valid_time # t)
         IN  <<GroupFirst(g)>> \o groupby_first(rest)

\* The deduplication of load_weather_data, done only when some row carries a
\* forecast_issue_time.
DedupWeather(d) ==
    IF \E i \in 1..Len(d) : ~isna(d[i].forecast_issue_time)
    THEN groupby_first(sort_values(d))
    ELSE d

\* with engine.begin() as conn: for rec in records: conn.execute(...).
\* failAt is the index of the record whose execute raises a database error that
\* is no unique-constraint violation (0: none does); the statement itself raises
\* at the first record when it cannot be prepared.  An exception leaves the
\* block through engine.begin(), which rolls the transaction back.
StoredRecord(table, r, id) ==
    IF table = "weather_hourly" THEN WeatherRecord(r, id) ELSE FrostRecord(r, id)

RECURSIVE ExecuteAll(_, _, _, _, _, _)
ExecuteAll(rows, lastId, records, i, failAt, table) ==
    IF i > Len(records) THEN [rows |-> rows, lastId |-> lastId, raised |-> FALSE]
    ELSE IF i = failAt THEN [rows |-> rows, lastId |-> lastId, raised |-> TRUE]
    ELSE ExecuteAll(InsertOrReplace(rows, StoredRecord(table, records[i], lastId + 1)),
                    lastId + 1, records, i + 1, failAt, table)

\* A block without a transaction: what was stored before the error stays
\* (variant for C25).
TransactionKeepsInserted(rows, lastId, records, sch, table, columns, failAt) ==
    LET run == ExecuteAll(rows, lastId, records, 1,
                          IF Prepares(sch, table, columns) THEN failAt ELSE 1, table)
    IN  [rows |-> run.rows, lastId |-> run.lastId, raised |-> run.raised,
         ret |-> IF run.raised THEN None ELSE Some(Len(records))]

Transaction(rows, lastId, records, sch, table, columns, failAt) ==
    LET run == ExecuteAll(rows, lastId, records, 1,
                          IF Prepares(sch, table, columns) THEN failAt ELSE 1, table)
    IN  IF run.raised
        THEN [rows |-> rows, lastId |-> lastId, raised |-> TRUE, ret |-> None]
        ELSE [rows |-> run.rows, lastId |-> run.lastId, raised |-> FALSE,
              ret |-> Some(Len(records))]

\* load_weather_data(df, engine): the new contents of weather_hourly, the new
\* AUTOINCREMENT counter, whether the call raised and what it returned.
load_weather_data(d, sch, rows, lastId, failAt) ==
    IF d = <<>> THEN [rows |-> rows, lastId |-> lastId, raised |-> FALSE, ret |-> Some(0)]
    ELSE Transaction(rows, lastId, DedupWeather(d),
                     sch, "weather_hourly", INSERT_WEATHER_SQL, failAt)

\* load_frost_warnings(df, engine, run_id)
load_frost_warnings(d, sch, rows, lastId, failAt) ==
    IF d = <<>> \/ WarningRows(d) = <<>>
    THEN [rows |-> rows, lastId |-> lastId, raised |-> FALSE, ret |-> Some(0)]
    ELSE Transaction(rows, lastId, groupby_first(sort_values(WarningRows(d))),
                     sch, "frost_warnings", INSERT_FROST_WARNING_SQL, failAt)

----------------------------------------------------------------------------
(* Bounds and the values the harnesses draw from *)

MaxRows  == 2      \* rows of a table handed to a load_* call or returned by the provider
MaxCalls == 2      \* load_* calls of the persistence harness
MaxRuns  == 1      \* invocations of main()

Temperatures == {0 - 50, 0 - 1, 0, 1, 10, 11, 20, 21, 30, 31, 50}
WindSpeeds   == {0, 29, 30, 39, 40, 100}
CloudCovers  == {0, 20, 21, 50, 51, 80, 81, 100}
Humidities   == {50, 85, 86, 100}
HoursOfDay   == {0, 7, 8, 12, 17, 18, 23}

Datasets     == {"forecast", "yr_forecast"}
HarnessTimes == {2, 3}
IssueTimes   == {0, 1}

HarnessRows ==
    {RawRow(t, ds, fit, temp, Some(10), Some(10), None, 1) :
        t \in HarnessTimes, ds \in Datasets, fit \in Opt(IssueTimes),
        temp \in Opt({0 - 10})}

TablesOf(Rows, n) == UNION {[1..k -> Rows] : k \in 0..n}

HarnessTables == {analyze_dataframe_advanced(d) : d \in TablesOf(HarnessRows, MaxRows)}

\* The rows of HarnessRows that have a temperature.
StoreRows   == {r \in HarnessRows : ~isna(r.temperature_2m)}
StoreTables == {analyze_dataframe_advanced(d) : d \in TablesOf(StoreRows, MaxRows)}

----------------------------------------------------------------------------
(* Idle values: what the variables of one part hold while another part runs *)

NoHist == [steps |-> <<>>, abort |-> "none", fetch |-> "none", email |-> "none",
           sms |-> "none", weather |-> "none", frost |-> "none", dbfault |-> FALSE,
           hb |-> "none", rows0 |-> {}, warn0 |-> {}, hb0 |-> <<>>]

IdleCls   == args = <<>> /\ result = None
NoStore   == /\ schema = <<>>
             /\ weather_hourly = {} /\ frost_warnings = {} /\ heartbeat = <<>>
             /\ seq = [t \in {"weather_hourly", "frost_warnings", "heartbeat"} |-> 0]
IdleHarn  == df = <<>> /\ calls = 0 /\ log = <<>> /\ submitted = {}
IdleMain  == /\ pc = "idle" /\ run_id = 0 /\ cfg = <<>>
             /\ email_notifier = FALSE /\ sms_notifier = FALSE
             /\ df_fc = <<>> /\ warnings_only = <<>> /\ errors = <<>>
             /\ exit_code = None /\ hist = NoHist

----------------------------------------------------------------------------
(* SpecClassify: one call of calculate_advanced_frost_risk on drawn arguments *)

InitClassify ==
    /\ args \in [temperature : Opt(Temperatures), wind_speed : Opt(WindSpeeds),
                 cloud_cover : Opt(CloudCovers), humidity : Opt(Humidities),
                 hour_of_day : Opt(HoursOfDay)]
    /\ result = None
    /\ NoStore /\ IdleHarn /\ IdleMain

Classify ==
    /\ result = None
    /\ result' = Some(calculate_advanced_frost_risk(args.temperature, args.wind_speed,
                          args.cloud_cover, args.humidity, args.hour_of_day))
    /\ UNCHANGED <<args, storeVars, harnVars, mainVars>>

NextClassify == Classify

SpecClassify == InitClassify /\ [][NextClassify]_vars

----------------------------------------------------------------------------
(* The persistence harness: direct calls of load_weather_data and          *)
(* load_frost_warnings on a store whose tables create_database_tables made *)

KeysOf(d) == {<<d[i].valid_time, d[i].dataset, d[i].forecast_issue_time>> : i \in 1..Len(d)}

FreshStore ==
    /\ schema = create_database_tables(<<>>)
    /\ weather_hourly = {} /\ frost_warnings = {} /\ heartbeat = <<>>
    /\ seq = [t \in {"weather_hourly", "frost_warnings", "heartbeat"} |-> 0]

\* What the harness writes down about one call.
CallRecord(op, d, failAt, r, before) ==
    [op |-> op, d |-> d, failAt |-> failAt, ret |-> r.ret, raised |-> r.raised,
     before |-> before, after |-> r.rows]

EnsureSchema ==
    /\ schema' = create_database_tables(schema)
    /\ UNCHANGED <<weather_hourly, frost_warnings, heartbeat, seq>>
    /\ UNCHANGED <<clsVars, harnVars, mainVars>>

LoadWeather(d, failAt) ==
    LET r == load_weather_data(d, schema, weather_hourly, seq["weather_hourly"], failAt)
    IN  /\ weather_hourly' = r.rows
        /\ seq' = [seq EXCEPT !["weather_hourly"] = r.lastId]
        /\ calls' = calls + 1
        /\ log' = Append(log, CallRecord("load_weather_data", d, failAt, r, weather_hourly))
        /\ submitted' = IF r.raised THEN submitted ELSE submitted \cup KeysOf(d)
        /\ UNCHANGED <<schema, frost_warnings, heartbeat, df>>
        /\ UNCHANGED <<clsVars, mainVars>>

LoadFrostWarnings(d, failAt) ==
    LET r == load_frost_warnings(d, schema, frost_warnings, seq["frost_warnings"], failAt)
    IN  /\ frost_warnings' = r.rows
        /\ seq' = [seq EXCEPT !["frost_warnings"] = r.lastId]
        /\ calls' = calls + 1
        /\ log' = Append(log, CallRecord("load_frost_warnings", d, failAt, r, frost_warnings))
        /\ UNCHANGED <<schema, weather_hourly, heartbeat, df, submitted>>
        /\ UNCHANGED <<clsVars, mainVars>>

\* The database error a call may meet: none, or one at its last record.
FailAts(d) == {0, Len(d)}

----------------------------------------------------------------------------
(* SpecStore: any sequence of load_* calls, each with a table of its own *)

InitStore == IdleCls /\ FreshStore /\ IdleHarn /\ IdleMain

NextStore ==
    \/ EnsureSchema
    \/ /\ calls < MaxCalls
       /\ \E d \in StoreTables : \E failAt \in FailAts(d) : LoadWeather(d, failAt)
    \/ /\ calls < MaxCalls
       /\ \E d \in StoreTables : \E failAt \in FailAts(d) : LoadFrostWarnings(d, failAt)

SpecStore == InitStore /\ [][NextStore]_vars

----------------------------------------------------------------------------
(* SpecTwice: two load_* calls with one and the same table *)

InitTwice ==
    /\ df \in HarnessTables
    /\ calls = 0 /\ log = <<>> /\ submitted = {}
    /\ FreshStore /\ IdleCls /\ IdleMain

NextTwice ==
    \/ calls < 2 /\ \E failAt \in FailAts(df) : LoadWeather(df, failAt)
    \/ calls < 2 /\ \E failAt \in FailAts(df) : LoadFrostWarnings(df, failAt)

SpecTwice == InitTwice /\ [][NextTwice]_vars

----------------------------------------------------------------------------
(* notification_manager.py *)

\* _setup_email_notifier: the notifier is kept only when the channel is enabled,
\* the EmailNotifier could be built and its test_connection() returned True
\* (EmailNotifier.test_connection catches every exception itself).
setup_email_notifier(enabled, outcome) == enabled /\ outcome = "ok"

\* _setup_sms_notifier: the same, but SmsNotifier.test_connection catches only
\* TwilioRestException; any other exception leaves it after self.sms_notifier
\* was assigned, and the handler of _setup_sms_notifier does not reset it.
setup_sms_notifier(enabled, outcome) == enabled /\ outcome \in {"ok", "test_raises"}

SetupOutcomes == {"ok", "key_error", "test_false", "test_raises"}

\* send_email_notifications: "skipped" when no attempt is made, else what the
\* attempt (send_frost_notification) did: "sent", "false" or "raises".
send_email_notifications(notifier, recipients, attempt) ==
    IF ~notifier THEN "skipped"
    ELSE IF recipients = "none" THEN "skipped"
    ELSE attempt

\* send_sms_notifications: get_sms_recipients() reads recipient['number'] of every
\* enabled recipient outside the try block, so a recipient record without a
\* number raises KeyError to the caller ("key_error").
send_sms_notifications(notifier, recipients, attempt) ==
    IF ~notifier THEN "skipped"
    ELSE IF recipients = "malformed" THEN "key_error"
    ELSE IF recipients = "none" THEN "skipped"
    ELSE attempt

Attempts == {"sent", "false", "raises"}

\* send_all_notifications on a non-empty table: the two results, and whether the
\* call raised instead of returning.
send_all_notifications(email, sms) ==
    [email    |-> email = "sent",
     sms      |-> sms = "sent",
     any_sent |-> email = "sent" \/ sms = "sent",
     raised   |-> sms = "key_error"]

----------------------------------------------------------------------------
(* SpecManager: a NotificationManager is built from a configuration and *)
(* send_all_notifications is called on it once                           *)

\* The email and sms sections of the configuration: either channel enabled or
\* not, an email recipient list that is empty or not, and SMS recipient records
\* of which none is enabled ("none"), or the enabled ones all carry a number
\* ("some") or not ("malformed").
ManagerConfigs ==
    [email_enabled : BOOLEAN, sms_enabled : BOOLEAN,
     email_recipients : {"none", "some"},
     sms_recipients : {"none", "some", "malformed"}]

InitManager ==
    /\ cfg \in ManagerConfigs
    /\ pc = "idle" /\ run_id = 0
    /\ email_notifier = FALSE /\ sms_notifier = FALSE
    /\ df_fc = <<>> /\ warnings_only = <<>> /\ errors = <<>>
    /\ exit_code = None /\ hist = NoHist
    /\ IdleCls /\ NoStore /\ IdleHarn

\* NotificationManager(config): both channels are set up; the log keeps what
\* the two connection tests did.
NewManager(email_outcome, sms_outcome) ==
    /\ calls = 0
    /\ email_notifier' = setup_email_notifier(cfg.email_enabled, email_outcome)
    /\ sms_notifier' = setup_sms_notifier(cfg.sms_enabled, sms_outcome)
    /\ log' = Append(log, [op |-> "create_notification_manager",
                           email_test |-> email_outcome, sms_test |-> sms_outcome])
    /\ calls' = 1
    /\ UNCHANGED <<pc, run_id, cfg, df_fc, warnings_only, errors, exit_code, hist>>
    /\ UNCHANGED <<clsVars, storeVars, df, submitted>>

\* send_all_notifications(warnings_df): an empty table returns at once; else
\* email, then SMS.  The log keeps what each channel did and what was returned.
SendAll(empty, email_attempt, sms_attempt) ==
    LET email == send_email_notifications(email_notifier, cfg.email_recipients, email_attempt)
        sms   == send_sms_notifications(sms_notifier, cfg.sms_recipients, sms_attempt)
    IN  /\ calls = 1
        /\ log' = Append(log,
                     IF empty
                     THEN [op |-> "send_all_notifications", empty |-> TRUE,
                           email |-> "skipped", sms |-> "skipped",
                           result |-> send_all_notifications("skipped", "skipped")]
                     ELSE [op |-> "send_all_notifications", empty |-> FALSE,
                           email |-> email, sms |-> sms,
                           result |-> send_all_notifications(email, sms)])
        /\ calls' = 2
        /\ UNCHANGED <<mainVars, clsVars, storeVars, df, submitted>>

NextManager ==
    \/ \E e \in SetupOutcomes : \E s \in SetupOutcomes : NewManager(e, s)
    \/ \E empty \in BOOLEAN : \E e \in Attempts : \E s \in Attempts : SendAll(empty, e, s)

SpecManager == InitManager /\ [][NextManager]_vars

----------------------------------------------------------------------------
(* sms_notifier.py: create_frost_sms_message *)

\* Times of the composers are hours counted from midnight of day 0.
DateOf(t) == t \div 24

RECURSIVE SumOf(_, _)
SumOf(d, col) == IF d = <<>> THEN 0 ELSE Val(Head(d)[col]) + SumOf(Tail(d), col)

MinOf(d, col) ==
    CHOOSE m \in {Val(d[i][col]) : i \in 1..Len(d)} : \A i \in 1..Len(d) : m <= Val(d[i][col])

MaxRisk(d) ==
    CHOOSE m \in {d[i].frost_risk_numeric : i \in 1..Len(d)} :
        \A i \in 1..Len(d) : m >= d[i].frost_risk_numeric

\* f"{x:.0f}" of a value given in tenths: the nearest integer, a half going to
\* the even neighbour, with the sign of x (so -0.4 is written "-0").
FormatF0(tenths) ==
    LET a == IF tenths < 0 THEN 0 - tenths ELSE tenths
        q == a \div 10
        r == a % 10
        n == IF r > 5 \/ (r = 5 /\ q % 2 = 1) THEN q + 1 ELSE q
    IN  [negative |-> tenths < 0, digits |-> n]

\* len() of the pieces a message is made of (code points: the warning sign and
\* the snowflake carry a variation selector).
LenF0(f) ==
    (IF f.negative THEN 1 ELSE 0)
    + (IF f.digits < 10 THEN 1 ELSE IF f.digits < 100 THEN 2 ELSE 3)

LenText(text) ==
    CASE text = "siren"         -> 1
      [] text = "warning_sign"  -> 2
      [] text = "snowflake"     -> 2
      [] text = "HOG RISK"      -> 8
      [] text = "MEDEL RISK"    -> 10
      [] text = "LAG RISK"      -> 8
      [] text = "idag"          -> 4
      [] text = "imorgon"       -> 7
      [] text = "dd/mm"         -> 5
      [] text = "N timmar"      -> 8
      [] text = "flera timmar"  -> 12
      [] text = "svag vind"     -> 9
      [] text = "mattlig vind"  -> 12
      [] text = "kraftig vind"  -> 12
      [] text = "Tack vaxter NU!" -> 15
      [] text = "Forbered skydd!" -> 15
      [] text = "Hall koll!"    -> 10

\* The message with time or duration and wind, and the shorter one without:
\* f"{emoji} FROST {risk_text} {when}. Temp {t}°C, {wind_text}. {action} MVH {location}"
\* f"{emoji} FROST {risk_text}. Temp {t}°C. {action} MVH {location}"
LongMessage(emoji, risk_text, when, temp, wind_text, action, location) ==
    [form |-> "long", emoji |-> emoji, risk_text |-> risk_text, when |-> when,
     temp |-> temp, wind_text |-> wind_text, action |-> action, location |-> location]

ShortMessage(emoji, risk_text, temp, action, location) ==
    [form |-> "short", emoji |-> emoji, risk_text |-> risk_text,
     temp |-> temp, action |-> action, location |-> location]

\* len(message); a location stands for its number of characters.
LenMessage(m) ==
    IF m.form = "empty" THEN 0
    ELSE IF m.form = "long"
    THEN LenText(m.emoji) + 7 + LenText(m.risk_text) + 1 + LenText(m.when) + 7
         + LenF0(m.temp) + 4 + LenText(m.wind_text) + 2 + LenText(m.action) + 5 + m.location
    ELSE LenText(m.emoji) + 7 + LenText(m.risk_text) + 7 + LenF0(m.temp) + 4
         + LenText(m.action) + 5 + m.location

create_frost_sms_message(warnings_df, location, now) ==
    IF warnings_df = <<>> THEN [form |-> "empty"]
    ELSE
    LET max_risk      == MaxRisk(warnings_df)
        warning_count == Len(warnings_df)
        first         == warnings_df[1].valid_time
        time_text     == IF DateOf(first) = DateOf(now) THEN "idag"
                         ELSE IF DateOf(first) = DateOf(now) + 1 THEN "imorgon"
                         ELSE "dd/mm"
        risk_text     == IF max_risk >= 3 THEN "HOG RISK"
                         ELSE IF max_risk >= 2 THEN "MEDEL RISK" ELSE "LAG RISK"
        emoji         == IF max_risk >= 3 THEN "siren"
                         ELSE IF max_risk >= 2 THEN "warning_sign" ELSE "snowflake"
        min_temp      == MinOf(warnings_df, "temperature_2m")
        sum_wind      == SumOf(warnings_df, "wind_speed_10m")
        duration_text == IF warning_count = 1 THEN "1 timme"
                         ELSE IF warning_count <= 6 THEN "N timmar" ELSE "flera timmar"
        wind_text     == IF sum_wind < 20 * warning_count THEN "svag vind"
                         ELSE IF sum_wind < 40 * warning_count THEN "mattlig vind"
                         ELSE "kraftig vind"
        action        == IF max_risk >= 3 THEN "Tack vaxter NU!"
                         ELSE IF max_risk >= 2 THEN "Forbered skydd!" ELSE "Hall koll!"
        message       == LongMessage(emoji, risk_text,
                                     IF warning_count = 1 THEN time_text ELSE duration_text,
                                     FormatF0(min_temp), wind_text, action, location)
    IN  IF LenMessage(message) > 160
        THEN ShortMessage(emoji, risk_text, FormatF0(min_temp), action, location)
        ELSE message

----------------------------------------------------------------------------
(* SpecCompose: one call of create_frost_sms_message on a drawn table *)

\* Three hours with a warning: -10.0 degrees at 06:00 of day 1 (high), 2.5
\* degrees under a clear sky at 05:00 of day 0 (low), 1.5 degrees under half
\* clear sky at 22:00 of day 2 (medium).
ComposeRows ==
    {RawRow(30, "forecast", Some(0), Some(0 - 100), Some(50), Some(10), None, 1),
     RawRow(5,  "forecast", Some(0), Some(25), Some(10), Some(10), None, 1),
     RawRow(70, "forecast", Some(0), Some(15), Some(30), Some(30), None, 1)}

\* The numbers of warning hours the wording tells apart: one, up to six, more.
WarningCounts == {0, 1, 2, 7}

ComposeTables ==
    {WarningRows(analyze_dataframe_advanced(d)) :
        d \in UNION {[1..k -> ComposeRows] : k \in WarningCounts}}

\* Lengths of location names: none, "Din trakt", "Grannfrostvakt", and longer ones.
LocationLengths == {0, 9, 14, 80, 109, 112}

InitCompose ==
    /\ args \in [warnings_df : ComposeTables, location : LocationLengths, now : {3, 27}]
    /\ result = None
    /\ NoStore /\ IdleHarn /\ IdleMain

Compose ==
    /\ result = None
    /\ result' = Some(create_frost_sms_message(args.warnings_df, args.location, args.now))
    /\ UNCHANGED <<args, storeVars, harnVars, mainVars>>

NextCompose == Compose

SpecCompose == InitCompose /\ [][NextCompose]_vars

----------------------------------------------------------------------------
(* email_notifier.py: format_frost_warning_email and what it calls.       *)
(* A rendered text is the record of the values written into its template. *)

\* A row of a warnings table as the formatter reads it.  temp_rolling_mean is
\* None when the table has no such column; secret_field is any further column.
EmailRow(valid_time, temperature_2m, wind_speed_10m, cloud_cover, frost_risk_level, frost_risk_numeric, temp_rolling_mean, secret_field) ==
    [valid_time |-> valid_time, temperature_2m |-> temperature_2m,
     wind_speed_10m |-> wind_speed_10m, cloud_cover |-> cloud_cover,
     frost_risk_level |-> frost_risk_level, frost_risk_numeric |-> frost_risk_numeric,
     temp_rolling_mean |-> temp_rolling_mean, secret_field |-> secret_field]

\* A temperature read from the wind column (variant for C17).
TempValueFromWind(row) == Val(row.wind_speed_10m)

\* row.get('temp_rolling_mean', row['temperature_2m'])
TempValue(row) ==
    IF isna(row.temp_rolling_mean) THEN Val(row.temperature_2m)
    ELSE Val(row.temp_rolling_mean)

get_friendly_date(date, now) ==
    LET today == DateOf(now)
        label == IF date = today THEN "Idag"
                 ELSE IF date = today + 1 THEN "I morgon"
                 ELSE IF date = today + 2 THEN "I overmorgon"
                 ELSE "weekday"
    IN  [label |-> label, weekday |-> IF label = "weekday" THEN date % 7 ELSE 0,
         date |-> date]

\* df.sort_values('valid_time')
RECURSIVE InsertByTime(_, _)
InsertByTime(d, x) ==
    IF d = <<>> THEN <<x>>
    ELSE IF x.valid_time < Head(d).valid_time THEN <<x>> \o d
    ELSE <<Head(d)>> \o InsertByTime(Tail(d), x)

RECURSIVE SortByTime(_)
SortByTime(d) ==
    IF d = <<>> THEN <<>> ELSE InsertByTime(SortByTime(SubSeq(d, 1, Len(d) - 1)), d[Len(d)])

BlockKey(row) == <<DateOf(row.valid_time), ((row.valid_time % 24) \div 2) * 2>>

\* The block a row opens.  The average cloud cover is kept as a sum and a
\* count; it is NaN for good when the first row has no cloud cover.
NewBlock(row, now) ==
    [key |-> BlockKey(row), date |-> DateOf(row.valid_time),
     start_hour |-> BlockKey(row)[2], end_hour |-> BlockKey(row)[2] + 2,
     friendly_date |-> get_friendly_date(DateOf(row.valid_time), now),
     max_risk_level |-> row.frost_risk_level, max_risk_numeric |-> row.frost_risk_numeric,
     min_temp |-> TempValue(row), max_temp |-> TempValue(row),
     cloud_nan |-> isna(row.cloud_cover),
     cloud_sum |-> IF isna(row.cloud_cover) THEN 0 ELSE Val(row.cloud_cover),
     cloud_count |-> IF isna(row.cloud_cover) THEN 0 ELSE 1]

\* What every row, the opening one too, does to the current block.
AddToBlock(b, row) ==
    LET higher == row.frost_risk_numeric > b.max_risk_numeric
        t      == TempValue(row)
    IN  [b EXCEPT !.max_risk_level = IF higher THEN row.frost_risk_level ELSE @,
                  !.max_risk_numeric = IF higher THEN row.frost_risk_numeric ELSE @,
                  !.min_temp = IF t < @ THEN t ELSE @,
                  !.max_temp = IF t > @ THEN t ELSE @,
                  !.cloud_sum = IF isna(row.cloud_cover) THEN @ ELSE @ + Val(row.cloud_cover),
                  !.cloud_count = IF isna(row.cloud_cover) THEN @ ELSE @ + 1]

RECURSIVE BlocksOf(_, _, _)
BlocksOf(d, blocks, now) ==
    IF d = <<>> THEN blocks
    ELSE LET row  == Head(d)
             n    == Len(blocks)
             open == n = 0 \/ blocks[n].key # BlockKey(row)
             cur  == IF open THEN NewBlock(row, now) ELSE blocks[n]
             rest == IF open THEN blocks ELSE SubSeq(blocks, 1, n - 1)
         IN  BlocksOf(Tail(d), Append(rest, AddToBlock(cur, row)), now)

create_enhanced_time_blocks(warnings_df, now) == BlocksOf(SortByTime(warnings_df), <<>>, now)

get_highest_risk_next_24h(warnings_df, now) ==
    LET next == SelectSeq(warnings_df, LAMBDA r : r.valid_time >= now /\ r.valid_time <= now + 24)
    IN  IF next = <<>> THEN "ingen"
        ELSE IF MaxRisk(next) >= 3 THEN "hog"
        ELSE IF MaxRisk(next) >= 2 THEN "medel"
        ELSE IF MaxRisk(next) >= 1 THEN "lag"
        ELSE "ingen"

\* f"{x:.0f}" of the quotient sum / count.
FormatQuotientF0(sum, count) ==
    LET q == sum \div count
        r == sum % count
    IN  IF 2 * r > count \/ (2 * r = count /\ q % 2 = 1) THEN q + 1 ELSE q

\* The div of one block: its class, header line and weather details.
RenderBlock(b) ==
    [css_class |-> IF b.max_risk_level = "hog" THEN "high-risk"
                   ELSE IF b.max_risk_level = "medel" THEN "medium-risk" ELSE "low-risk",
     friendly_date |-> b.friendly_date, start_hour |-> b.start_hour, end_hour |-> b.end_hour,
     risk |-> b.max_risk_level,
     temp_text |-> IF b.min_temp = b.max_temp THEN <<b.min_temp>> ELSE <<b.min_temp, b.max_temp>>,
     cloud |-> IF b.cloud_nan THEN <<>> ELSE <<FormatQuotientF0(b.cloud_sum, b.cloud_count)>>,
     cloud_desc |-> IF b.cloud_nan THEN "okant"
                    ELSE IF b.cloud_sum <= 20 * b.cloud_count THEN "klar himmel"
                    ELSE IF b.cloud_sum <= 50 * b.cloud_count THEN "latt molnigt"
                    ELSE IF b.cloud_sum <= 80 * b.cloud_count THEN "molnigt"
                    ELSE "mulet",
     cloud_impact |-> IF b.cloud_nan THEN ""
                      ELSE IF b.cloud_sum <= 20 * b.cloud_count THEN "okar frostrisk"
                      ELSE IF b.cloud_sum >= 80 * b.cloud_count THEN "minskar frostrisk"
                      ELSE ""]

format_frost_warning_email(warnings_df, location, now) ==
    IF warnings_df = <<>>
    THEN [subject |-> [text |-> "Inga frostvarningar"], html_body |-> [text |-> "Inga frostvarningar"]]
    ELSE
    LET highest_risk == get_highest_risk_next_24h(warnings_df, now)
        risk_text    == IF highest_risk = "hog" THEN "HOG FROSTRISK"
                        ELSE IF highest_risk = "medel" THEN "MEDEL FROSTRISK"
                        ELSE "LAG FROSTRISK"
        color        == IF highest_risk = "hog" THEN "#ff4444"
                        ELSE IF highest_risk = "medel" THEN "#ff8800" ELSE "#4488ff"
        all_blocks   == create_enhanced_time_blocks(warnings_df, now)
        time_blocks  == SubSeq(all_blocks, 1, IF Len(all_blocks) < 8 THEN Len(all_blocks) ELSE 8)
    IN  [subject   |-> [text |-> "FROSTVARNING", location |-> location, risk_text |-> risk_text],
         html_body |-> [color |-> color, location |-> location, stamp |-> now,
                        highest_risk |-> highest_risk,
                        blocks |-> [i \in 1..Len(time_blocks) |-> RenderBlock(time_blocks[i])],
                        recommendations |-> risk_text]]

----------------------------------------------------------------------------
(* SpecFormat: format_frost_warning_email is called at one instant, for one *)
(* location, on a table and on a second table that differs from it in one   *)
(* column                                                                    *)

\* Warning hours at 04:00 and 05:00 of day 1 (one block) and 06:00 of day 2,
\* freezing (high) or 2.5 degrees (low), cloud cover unknown, 10 or 90.
EmailRows(rolling) ==
    {EmailRow(t, Some(k[1]), Some(10), c, k[2], k[3], rolling, "a") :
        t \in {28, 29, 54}, k \in {<<0 - 10, "hog", 3>>, <<25, "lag", 1>>},
        c \in {None, Some(10), Some(90)}}

\* The tables with and without a temp_rolling_mean column.
EmailTables ==
    UNION {TablesOf(EmailRows(rolling), MaxRows) : rolling \in {None, Some(0 - 20)}}

\* The table d with column col of row i (of every row, to add the column
\* temp_rolling_mean to a table without it) set to v.
Changed(d, i, col, v) ==
    [j \in 1..Len(d) |->
        IF j = i \/ (col = "temp_rolling_mean" /\ isna(d[j].temp_rolling_mean))
        THEN [d[j] EXCEPT ![col] = v] ELSE d[j]]

Changes ==
    {<<"secret_field", "HEMLIG_DATA">>, <<"wind_speed_10m", Some(50)>>,
     <<"temp_rolling_mean", Some(0 - 30)>>, <<"temperature_2m", Some(0 - 30)>>,
     <<"cloud_cover", Some(50)>>}

InitFormat ==
    /\ \E d \in EmailTables \ {<<>>} : \E i \in 1..Len(d) : \E c \in Changes :
           args \in [warnings_df : {d}, other : {Changed(d, i, c[1], c[2])},
                     location : {"Test"}, now : {20, 100}]
    /\ result = None
    /\ NoStore /\ IdleHarn /\ IdleMain

Format ==
    /\ result = None
    /\ result' = Some([first  |-> format_frost_warning_email(args.warnings_df, args.location, args.now),
                       second |-> format_frost_warning_email(args.other, args.location, args.now)])
    /\ UNCHANGED <<args, storeVars, harnVars, mainVars>>

NextFormat == Format

SpecFormat == InitFormat /\ [][NextFormat]_vars

----------------------------------------------------------------------------
(* main.py: main() *)

\* The configurations main() is run with: either channel enabled or not, a
\* non-empty email recipient list, and SMS recipient records that are enabled
\* and either all carry a number ("some") or not ("malformed").
Configs ==
    [email_enabled : BOOLEAN, sms_enabled : BOOLEAN,
     email_recipients : {"some"},
     sms_recipients : {"some", "malformed"}]

\* What the provider returns for run rid, once transform_hourly_json has made
\* a table of it: one row per hour from 07:00 on, dataset "forecast", issued now.
ForecastRows(rid, h) ==
    {RawRow(6 + h, "forecast", Some(rid), Some(temp), Some(10), Some(10), None, rid) :
        temp \in {0 - 10, 50}}

Forecasts(rid) ==
    UNION {{d \in [1..k -> UNION {ForecastRows(rid, h) : h \in 1..k}] :
               \A h \in 1..k : d[h] \in ForecastRows(rid, h)} : k \in 0..MaxRows}

\* An entry of stats['errors']: the prefix main() writes and whether the text of
\* the exception that follows it contains 'kritiskt' or 'databas'.
ErrorMsg(prefix, detail) == [prefix |-> prefix, detail |-> detail]

\* any('kritiskt' in error.lower() or 'databas' in error.lower() ...)
MentionsKeyword(error) ==
    \/ error.prefix = "Databas-sparning misslyckades"
    \/ error.detail = "keyword"

\* The last statement of main(): the status the process ends with.
ExitStatus(errs) ==
    IF errs # <<>> /\ \E i \in 1..Len(errs) : MentionsKeyword(errs[i]) THEN 1 ELSE 0

\* A status that ignores the errors (variant for C3).
HeartbeatStatusAlwaysOk(errs) == "ok"

\* "status": "ok" if not stats['errors'] else "fail"
HeartbeatStatus(errs) == IF errs = <<>> THEN "ok" ELSE "fail"

\* A heartbeat written only by runs without errors (variant for C2).
write_heartbeat_unless_fail(rows, id, rid, status) ==
    IF status = "fail" THEN rows
    ELSE Append(rows, [id |-> id, run_id |-> rid, status |-> status])

\* INSERT INTO heartbeat (run_id, status, timestamp): one more row.
write_heartbeat(rows, id, rid, status) ==
    Append(rows, [id |-> id, run_id |-> rid, status |-> status])

Step(name) == hist' = [hist EXCEPT !.steps = Append(@, name)]

Exits(status) == pc' = "done" /\ exit_code' = Some(status)

StartRun ==
    /\ pc \in {"idle", "done"}
    /\ run_id < MaxRuns
    /\ run_id' = run_id + 1
    /\ pc' = "load_config"
    /\ cfg' = <<>> /\ email_notifier' = FALSE /\ sms_notifier' = FALSE
    /\ df_fc' = <<>> /\ warnings_only' = <<>> /\ errors' = <<>> /\ exit_code' = None
    /\ hist' = [NoHist EXCEPT !.rows0 = weather_hourly, !.warn0 = frost_warnings,
                              !.hb0 = heartbeat]
    /\ UNCHANGED <<clsVars, storeVars, harnVars>>

\* load_config, and the read of cfg["run"] that follows it: a missing file exits
\* with 1 at once, a missing section is an uncaught KeyError, which the
\* top-level handler turns into exit status 1.
LoadConfig(outcome) ==
    /\ pc = "load_config"
    /\ IF outcome = "ok"
       THEN /\ cfg' \in Configs
            /\ pc' = "smoke"
            /\ UNCHANGED exit_code
            /\ UNCHANGED hist
       ELSE /\ Exits(1)
            /\ hist' = [hist EXCEPT !.abort = "config"]
            /\ UNCHANGED cfg
    /\ UNCHANGED <<run_id, email_notifier, sms_notifier, df_fc, warnings_only, errors>>
    /\ UNCHANGED <<clsVars, storeVars, harnVars>>

\* The smoke check: "absent" is the ImportError, "error" any other exception of
\* run_smoke_tests(); sys.exit(1) raises SystemExit, which no handler here catches.
SmokeCheck(outcome) ==
    /\ pc = "smoke"
    /\ IF outcome = "fail"
       THEN Exits(1) /\ hist' = [hist EXCEPT !.abort = "smoke"]
       ELSE pc' = "database" /\ UNCHANGED <<exit_code, hist>>
    /\ UNCHANGED <<run_id, cfg, email_notifier, sms_notifier, df_fc, warnings_only, errors>>
    /\ UNCHANGED <<clsVars, storeVars, harnVars>>

PrepareDatabase(ok) ==
    /\ pc = "database"
    /\ IF ok
       THEN /\ schema' = create_database_tables(schema)
            /\ pc' = "manager"
            /\ UNCHANGED <<exit_code, hist>>
       ELSE /\ Exits(1)
            /\ hist' = [hist EXCEPT !.abort = "database"]
            /\ UNCHANGED schema
    /\ UNCHANGED <<weather_hourly, frost_warnings, heartbeat, seq>>
    /\ UNCHANGED <<run_id, cfg, email_notifier, sms_notifier, df_fc, warnings_only, errors>>
    /\ UNCHANGED <<clsVars, harnVars>>

CreateNotificationManager(email_outcome, sms_outcome) ==
    /\ pc = "manager"
    /\ email_notifier' = setup_email_notifier(cfg.email_enabled, email_outcome)
    /\ sms_notifier' = setup_sms_notifier(cfg.sms_enabled, sms_outcome)
    /\ pc' = "fetch"
    /\ UNCHANGED <<run_id, cfg, df_fc, warnings_only, errors, exit_code, hist>>
    /\ UNCHANGED <<clsVars, storeVars, harnVars>>

\* fetch_forecast and transform_hourly_json succeed.
FetchForecast(table) ==
    /\ pc = "fetch"
    /\ df_fc' = table
    /\ hist' = [hist EXCEPT !.steps = Append(@, "fetch"), !.fetch = "ok"]
    /\ pc' = "analyze"
    /\ UNCHANGED <<run_id, cfg, email_notifier, sms_notifier, warnings_only, errors, exit_code>>
    /\ UNCHANGED <<clsVars, storeVars, harnVars>>

\* fetch_forecast raises after its retries (or transform_hourly_json raises):
\* the handler of the outer try block.
FetchFails(detail) ==
    /\ pc = "fetch"
    /\ errors' = Append(errors, ErrorMsg("Prognos misslyckades", detail))
    /\ df_fc' = <<>>
    /\ hist' = [hist EXCEPT !.steps = Append(@, "fetch"), !.fetch = "failed"]
    /\ pc' = "persist"
    /\ UNCHANGED <<run_id, cfg, email_notifier, sms_notifier, warnings_only, exit_code>>
    /\ UNCHANGED <<clsVars, storeVars, harnVars>>

\* An orchestrator that goes from the analysis straight to persistence
\* (variant for C5).
AfterAnalysisPersistFirst(w) == "persist"

\* The step that follows the analysis: the notification block is entered only
\* when warnings_only is not empty.
AfterAnalysis(w) == IF w # <<>> THEN "notify" ELSE "persist"

\* perform_frost_analysis and the selection of warnings_only.
Analyze ==
    /\ pc = "analyze"
    /\ df_fc' = analyze_dataframe_advanced(df_fc)
    /\ warnings_only' = WarningRows(df_fc')
    /\ Step("analysis")
    /\ pc' = AfterAnalysis(warnings_only')
    /\ UNCHANGED <<run_id, cfg, email_notifier, sms_notifier, errors, exit_code>>
    /\ UNCHANGED <<clsVars, storeVars, harnVars>>

\* notification_manager.send_all_notifications(warnings_only), inside its own try.
Notify(email_attempt, sms_attempt) ==
    LET email == send_email_notifications(email_notifier, cfg.email_recipients, email_attempt)
        sms   == send_sms_notifications(sms_notifier, cfg.sms_recipients, sms_attempt)
        res   == send_all_notifications(email, sms)
    IN  /\ pc = "notify"
        /\ hist' = [hist EXCEPT !.steps = Append(@, "notify"), !.email = email, !.sms = sms]
        /\ errors' = IF res.raised
                     THEN Append(errors, ErrorMsg("Notifikationsfel", "plain"))
                     ELSE errors
        /\ pc' = "persist"
        /\ UNCHANGED <<run_id, cfg, email_notifier, sms_notifier, df_fc, warnings_only, exit_code>>
        /\ UNCHANGED <<clsVars, storeVars, harnVars>>

\* The persistence block: load_weather_data, then load_frost_warnings, under one
\* handler.  Each call is a transaction of its own.
Persist(failW, failF) ==
    LET w == load_weather_data(df_fc, schema, weather_hourly, seq["weather_hourly"], failW)
        f == load_frost_warnings(df_fc, schema, frost_warnings, seq["frost_warnings"], failF)
    IN  /\ pc = "persist"
        /\ IF df_fc = <<>>
           THEN /\ UNCHANGED <<weather_hourly, frost_warnings, seq, errors>>
                /\ Step("persist")
           ELSE IF w.raised
           THEN /\ UNCHANGED <<weather_hourly, frost_warnings, seq>>
                /\ errors' = Append(errors, ErrorMsg("Databas-sparning misslyckades", "plain"))
                /\ hist' = [hist EXCEPT !.steps = Append(@, "persist"), !.weather = "raised",
                                        !.dbfault = TRUE]
           ELSE /\ weather_hourly' = w.rows
                /\ frost_warnings' = f.rows
                /\ seq' = [seq EXCEPT !["weather_hourly"] = w.lastId,
                                      !["frost_warnings"] = f.lastId]
                /\ errors' = IF f.raised
                             THEN Append(errors, ErrorMsg("Databas-sparning misslyckades", "plain"))
                             ELSE errors
                /\ hist' = [hist EXCEPT !.steps = Append(@, "persist"), !.weather = "stored",
                                        !.frost = IF f.raised THEN "raised" ELSE "stored",
                                        !.dbfault = (failF # 0)]
        /\ pc' = "heartbeat"
        /\ UNCHANGED <<schema, heartbeat>>
        /\ UNCHANGED <<run_id, cfg, email_notifier, sms_notifier, df_fc, warnings_only, exit_code>>
        /\ UNCHANGED <<clsVars, harnVars>>

\* The heartbeat insert, inside its own try: ok is whether the database accepts it.
Heartbeat(ok) ==
    /\ pc = "heartbeat"
    /\ IF ok /\ Prepares(schema, "heartbeat", {"run_id", "status", "timestamp"})
       THEN /\ heartbeat' = write_heartbeat(heartbeat, seq["heartbeat"] + 1, run_id,
                                             HeartbeatStatus(errors))
            /\ seq' = [seq EXCEPT !["heartbeat"] = @ + 1]
            /\ hist' = [hist EXCEPT !.steps = Append(@, "heartbeat"), !.hb = "stored"]
       ELSE /\ UNCHANGED <<heartbeat, seq>>
            /\ hist' = [hist EXCEPT !.steps = Append(@, "heartbeat"), !.hb = "raised"]
    /\ pc' = "exit"
    /\ UNCHANGED <<schema, weather_hourly, frost_warnings>>
    /\ UNCHANGED <<run_id, cfg, email_notifier, sms_notifier, df_fc, warnings_only, errors, exit_code>>
    /\ UNCHANGED <<clsVars, harnVars>>

\* The final step: the summary line and the exit status.
Exit ==
    /\ pc = "exit"
    /\ Exits(ExitStatus(errors))
    /\ Step("exit")
    /\ UNCHANGED <<run_id, cfg, email_notifier, sms_notifier, df_fc, warnings_only, errors>>
    /\ UNCHANGED <<clsVars, storeVars, harnVars>>

Init == IdleCls /\ NoStore /\ IdleHarn /\ IdleMain

Next ==
    \/ StartRun
    \/ \E outcome \in {"ok", "missing", "no_run_section"} : LoadConfig(outcome)
    \/ \E outcome \in {"absent", "pass", "fail", "error"} : SmokeCheck(outcome)
    \/ \E ok \in BOOLEAN : PrepareDatabase(ok)
    \/ \E e \in SetupOutcomes : \E s \in SetupOutcomes : CreateNotificationManager(e, s)
    \/ \E table \in Forecasts(run_id) : FetchForecast(table)
    \/ \E detail \in {"plain", "keyword"} : FetchFails(detail)
    \/ Analyze
    \/ \E e \in Attempts : \E s \in Attempts : Notify(e, s)
    \/ /\ pc = "persist"
       /\ \E failW \in FailAts(df_fc) : \E failF \in FailAts(WarningRows(df_fc)) :
              Persist(failW, failF)
    \/ \E ok \in BOOLEAN : Heartbeat(ok)
    \/ Exit

Spec == Init /\ [][Next]_vars

----------------------------------------------------------------------------
(* main.py: fetch_with_retry, one step per request, sleep, return and raise. *)
(* args holds max_retries and backoff, calls is the loop variable `attempt`, *)
(* log is what the call did to the outside (GET requests and sleeps, in      *)
(* order), result is how the call ended.                                     *)

MaxRetries == 3     \* largest max_retries drawn
MaxBackoff == 2     \* largest backoff drawn

\* The subclasses of requests.RequestException a request can end in:
\* requests.get raises Timeout or ConnectionError, raise_for_status HTTPError.
RequestExceptions == {"Timeout", "ConnectionError", "HTTPError"}

\* A sleep that does not grow with the attempt (variant for C18).
SleepTimeConstant(backoff, attempt) == backoff

sleep_time(backoff, attempt) == backoff * (attempt + 1)

InitRetry ==
    /\ args \in [max_retries : (0 - 1) .. MaxRetries, backoff : 0 .. MaxBackoff]
    /\ result = None
    /\ pc = "for" /\ run_id = 0 /\ cfg = <<>>
    /\ email_notifier = FALSE /\ sms_notifier = FALSE
    /\ df_fc = <<>> /\ warnings_only = <<>> /\ errors = <<>>
    /\ exit_code = None /\ hist = NoHist
    /\ NoStore /\ IdleHarn

\* try: requests.get, raise_for_status, return response.json()
\* The response of the request of attempt k is written k.
Get(outcome) ==
    /\ pc = "for" /\ calls < args.max_retries
    /\ log' = Append(log, [op |-> "get", attempt |-> calls, outcome |-> outcome])
    /\ IF outcome = "ok"
       THEN result' = Some([kind |-> "return", json |-> calls]) /\ pc' = "done"
       ELSE result' = result /\ pc' = "except"
    /\ UNCHANGED <<args, storeVars, df, calls, submitted>>
    /\ UNCHANGED <<run_id, cfg, email_notifier, sms_notifier, df_fc, warnings_only,
                   errors, exit_code, hist>>

\* except RequestException, attempt < max_retries - 1: sleep, next attempt
Sleep ==
    /\ pc = "except" /\ calls < args.max_retries - 1
    /\ log' = Append(log, [op |-> "sleep", attempt |-> calls,
                           seconds |-> sleep_time(args.backoff, calls)])
    /\ calls' = calls + 1 /\ pc' = "for"
    /\ UNCHANGED <<clsVars, storeVars, df, submitted>>
    /\ UNCHANGED <<run_id, cfg, email_notifier, sms_notifier, df_fc, warnings_only,
                   errors, exit_code, hist>>

\* except RequestException, last attempt: raise (the exception being handled)
Reraise ==
    /\ pc = "except" /\ ~(calls < args.max_retries - 1)
    /\ result' = Some([kind |-> "raise", exception |-> log[Len(log)].outcome])
    /\ pc' = "done"
    /\ UNCHANGED <<args, storeVars, harnVars>>
    /\ UNCHANGED <<run_id, cfg, email_notifier, sms_notifier, df_fc, warnings_only,
                   errors, exit_code, hist>>

\* range(max_retries) is exhausted without a return or a raise (which happens
\* for max_retries <= 0 only): the function falls off its end and returns None
FallThrough ==
    /\ pc = "for" /\ ~(calls < args.max_retries)
    /\ result' = Some([kind |-> "return_none"])
    /\ pc' = "done"
    /\ UNCHANGED <<args, storeVars, harnVars>>
    /\ UNCHANGED <<run_id, cfg, email_notifier, sms_notifier, df_fc, warnings_only,
                   errors, exit_code, hist>>

NextRetry ==
    \/ \E outcome \in {"ok"} \cup RequestExceptions : Get(outcome)
    \/ Sleep
    \/ Reraise
    \/ FallThrough

SpecRetry == InitRetry /\ [][NextRetry]_vars

----------------------------------------------------------------------------
(* yr_api_client.py: YrApiClient.fetch_forecast, for one cache key.          *)
(* The cache holds nothing (<<>>) or one entry (<<entry>>) for the key; an   *)
(* entry has data and the optional expires and last_modified.  An Expires    *)
(* header is a text in some format naming an instant; instants are whole     *)
(* numbers on the axis of the clock.                                         *)

MaxFetches == 3     \* fetch_forecast calls on one client
MaxClock   == 2     \* the latest instant a call is made or a header names

\* "Tue, 03 Nov 2026 12:00:00 GMT" is an http_date, "2026-11-03T12:00:00Z"
\* an iso_utc text.
ExpiresHeaders ==
    {None} \cup {Some([format |-> f, at |-> t]) : f \in {"http_date", "iso_utc"}, t \in 1 .. MaxClock}

Responses ==
    [kind : {"ok"}, data : {"a", "b"}, expires : ExpiresHeaders,
     last_modified : {None, Some("m1")}]
    \cup [kind : {"not_modified", "http_error", "timeout"}, data : {"-"},
          expires : {None}, last_modified : {None}]

\* datetime.fromisoformat(expires.replace('Z', '+00:00')) raises ValueError
\* on a text that is not ISO 8601, and the bare except answers False.
ParsesAsIso(expires) == expires.format = "iso_utc"

is_cache_valid(cache_entry, now) ==
    /\ ~isna(cache_entry.expires)
    /\ ParsesAsIso(Val(cache_entry.expires))
    /\ now < Val(cache_entry.expires).at

\* What one call does: whether it sent a request and with which
\* If-Modified-Since, how it ended, and the cache it leaves.
fetch_forecast(cache, now, response) ==
    IF ~isna(cache) /\ is_cache_valid(Val(cache), now)
    THEN [request |-> FALSE, if_modified_since |-> None,
          outcome |-> [kind |-> "return", data |-> Val(cache).data],
          cache_after |-> cache]
    ELSE LET headers == IF ~isna(cache) THEN Val(cache).last_modified ELSE None
             sent(outcome, after) ==
                 [request |-> TRUE, if_modified_since |-> headers,
                  outcome |-> outcome, cache_after |-> after]
             raised == [kind |-> "raise", data |-> "-"]
         IN  CASE response.kind = "not_modified" ->
                    IF ~isna(cache)
                    THEN sent([kind |-> "return", data |-> Val(cache).data], cache)
                    ELSE sent(raised, cache)
               [] response.kind \in {"http_error", "timeout"} -> sent(raised, cache)
               [] OTHER ->
                    sent([kind |-> "return", data |-> response.data],
                         Some([data |-> response.data, expires |-> response.expires,
                               last_modified |-> response.last_modified]))

\* result holds the record of the latest call; the client's cache is what
\* that call left.
YrCache == IF isna(result) THEN None ELSE Val(result).did.cache_after
YrClock == IF isna(result) THEN 0 ELSE Val(result).now

InitYr == IdleCls /\ NoStore /\ IdleHarn /\ IdleMain

\* client.fetch_forecast(lat, lon) at instant now; the provider answers
\* with response if asked.
YrFetch(now, response) ==
    /\ calls < MaxFetches /\ now >= YrClock
    /\ result' = Some([cache_before |-> YrCache, now |-> now, response |-> response,
                       did |-> fetch_forecast(YrCache, now, response)])
    /\ calls' = calls + 1
    /\ UNCHANGED <<args, storeVars, mainVars, df, log, submitted>>

NextYr == \E now \in 0 .. MaxClock : \E response \in Responses : YrFetch(now, response)

SpecYr == InitYr /\ [][NextYr]_vars

----------------------------------------------------------------------------
(* scripts/historical_data_fetcher.py: main() and save_data.                 *)
(* submitted holds the committed rows of weather_historical; a row is its    *)
(* year and the number of its hour within the fetched window.  args holds    *)
(* current_year and years_to_fetch of the run under way (of the last run,    *)
(* between runs), run_id counts the runs started, log has one record per     *)
(* run, calls counts the years that failed so far.                           *)

MaxBackfills == 2     \* runs of the backfill tool
MaxFailures  == 2     \* years that fail, over all runs
HoursPerYear == 2     \* rows the provider returns for one year
BackfillYears == 10   \* range(current_year - 10, current_year)

\* The current years a run can see; the table can hold years of an older
\* backfill too.
CurrentYears == {20, 21}

YearsIn(table) == {row.year : row \in table}

\* fetch_year_data(cfg, year): the rows of one year
fetch_year_data(year) == {[year |-> year, hour |-> h] : h \in 1 .. HoursPerYear}

\* list(range(current_year - 10, current_year))
all_years(current_year) ==
    [i \in 1 .. BackfillYears |-> current_year - BackfillYears + i - 1]

\* check_database, then the choice of the years to fetch
years_to_fetch(table, current_year) ==
    LET count == Cardinality(table)
        years == YearsIn(table)
        in_table(y) == y \notin years
    IN  IF count = 0 THEN all_years(current_year)
        ELSE SelectSeq(all_years(current_year), in_table)

\* A save that commits after every row (variant for C20).
SaveDataCommitsEachRow(table, rows, fails_at) ==
    table \cup {row \in rows : isna(fails_at) \/ row.hour < Val(fails_at)}

\* save_data(df, db_path): the rows are inserted one by one on one
\* connection, a row whose valid_time is there already is skipped, and the
\* commit comes after the last row.  fails_at is <<>>, or <<h>> when the
\* insert of row h raises something else than IntegrityError: the call ends
\* there, the connection is dropped uncommitted and SQLite rolls its
\* transaction back.
save_data(table, rows, fails_at) ==
    IF isna(fails_at) THEN table \cup rows ELSE table

RowsOf(years) == UNION {fetch_year_data(y) : y \in years}

InitBackfill ==
    /\ submitted \in {RowsOf({}), RowsOf(10 .. 19), RowsOf((10 .. 19) \ {12}),
                      RowsOf((10 .. 19) \ {10, 15}), RowsOf({5}),
                      RowsOf(11 .. 20), RowsOf(10 .. 19) \ {[year |-> 13, hour |-> 1]}}
    /\ IdleCls /\ NoStore /\ IdleMain
    /\ df = <<>> /\ calls = 0 /\ log = <<>>

\* main() up to the loop: create_table, check_database, the years to fetch
StartBackfill(current_year) ==
    LET todo == years_to_fetch(submitted, current_year)
    IN  /\ pc = "idle" /\ run_id < MaxBackfills
        /\ \A i \in 1 .. Len(log) : current_year >= log[i].current_year
        /\ run_id' = run_id + 1
        /\ args' = [current_year |-> current_year, years_to_fetch |-> todo]
        /\ log' = Append(log, [current_year |-> current_year, years |-> YearsIn(submitted),
                               count |-> Cardinality(submitted), attempted |-> <<>>,
                               failed_fetch |-> {}, failed_save |-> {}])
        /\ pc' = IF todo = <<>> THEN "idle" ELSE "loop"
        /\ UNCHANGED <<result, storeVars, df, calls, submitted>>
        /\ UNCHANGED <<cfg, email_notifier, sms_notifier, df_fc, warnings_only,
                       errors, exit_code, hist>>

\* One round of the loop: fetch_year_data and save_data for the next year,
\* inside try / except Exception: continue.
FetchYear(outcome, fails_at) ==
    LET year == Head(args.years_to_fetch)
        rest == Tail(args.years_to_fetch)
        run  == log[run_id]
        failed == outcome # "ok"
    IN  /\ pc = "loop"
        /\ failed => calls < MaxFailures
        /\ (outcome = "save_fails") = ~isna(fails_at)
        /\ submitted' = IF outcome = "fetch_fails" THEN submitted
                        ELSE save_data(submitted, fetch_year_data(year), fails_at)
        /\ log' = [log EXCEPT ![run_id] =
                      [run EXCEPT !.attempted = Append(@, year),
                                  !.failed_fetch = IF outcome = "fetch_fails"
                                                   THEN @ \cup {year} ELSE @,
                                  !.failed_save = IF outcome = "save_fails"
                                                  THEN @ \cup {year} ELSE @]]
        /\ calls' = IF failed THEN calls + 1 ELSE calls
        /\ args' = [args EXCEPT !.years_to_fetch = rest]
        /\ pc' = IF rest = <<>> THEN "idle" ELSE "loop"
        /\ UNCHANGED <<result, storeVars, df>>
        /\ UNCHANGED <<run_id, cfg, email_notifier, sms_notifier, df_fc, warnings_only,
                       errors, exit_code, hist>>

NextBackfill ==
    \/ \E current_year \in CurrentYears : StartBackfill(current_year)
    \/ \E outcome \in {"ok", "fetch_fails", "save_fails"} :
          \E fails_at \in {None} \cup {Some(h) : h \in 1 .. HoursPerYear} :
             FetchYear(outcome, fails_at)

SpecBackfill == InitBackfill /\ [][NextBackfill]_vars

----------------------------------------------------------------------------
(* main.py: transform_hourly_json.  args is json_data["hourly"]: its time   *)
(* list and, for a variable, <<>> when the provider left it out or <<list>>  *)
(* when it sent a list; a value of a list is None or a number (wind in       *)
(* tenths of km/h).  Of the six wanted variables temperature_2m stands for   *)
(* the five that are copied, wind_speed_10m is the one that is converted.    *)

\* df[col] = values: a list of another length than the index raises
\* ValueError; a list of None only makes a column of dtype object, any
\* number in it a float64 column with NaN for None.
SetColumn(n, values) ==
    IF Len(values) # n THEN "ValueError"
    ELSE IF \A i \in 1 .. n : isna(values[i]) THEN "object" ELSE "float64"

\* hourly.get(col, [None] * len(df)) for each wanted column in turn, then
\* wind / 3.6, which raises TypeError on an object column (None / 3.6).
transform_hourly_json(hourly) ==
    LET n == Len(hourly.time)
        values(col) == IF isna(hourly[col]) THEN [i \in 1 .. n |-> None] ELSE Val(hourly[col])
        wind(v) == IF isna(v) THEN None ELSE Some((Val(v) * 10) \div 36)
    IN  IF n = 0 THEN [kind |-> "empty", rows |-> <<>>]
        ELSE IF SetColumn(n, values("temperature_2m")) = "ValueError"
                \/ SetColumn(n, values("wind_speed_10m")) = "ValueError"
             THEN [kind |-> "ValueError", rows |-> <<>>]
        ELSE IF SetColumn(n, values("wind_speed_10m")) = "object"
             THEN [kind |-> "TypeError", rows |-> <<>>]
        ELSE [kind |-> "table",
              rows |-> [i \in 1 .. n |-> [valid_time |-> hourly.time[i],
                                          temperature_2m |-> values("temperature_2m")[i],
                                          wind_speed_10m |-> wind(values("wind_speed_10m")[i])]]]

InitTransform ==
    /\ args \in [time : TablesOf({0, 1}, MaxRows),
                 temperature_2m : Opt(TablesOf(Opt({50}), MaxRows)),
                 wind_speed_10m : Opt(TablesOf(Opt({72}), MaxRows))]
    /\ result = None
    /\ NoStore /\ IdleHarn /\ IdleMain

Transform ==
    /\ result = None
    /\ result' = Some(transform_hourly_json(args))
    /\ UNCHANGED <<args, storeVars, harnVars, mainVars>>

SpecTransform == InitTransform /\ [][Transform]_vars

----------------------------------------------------------------------------
(* scripts/tune_frost_algorithm.py: the comprehensive variant of the tuning *)
(* harness, with the harness's own copy of calculate_cloud_impact_factor    *)

\* The variant without its check of the humidity (variant for C22).
AlgorithmWithoutHumidity(temp, wind, cloud_cover, humidity, hour) ==
    LET cloud_factor == calculate_cloud_impact_factor(cloud_cover)
        temp_limit   == IF cloud_factor >= 14 THEN 30
                        ELSE IF cloud_factor >= 11 THEN 20 ELSE 10
    IN  IF isna(temp) \/ isna(wind) THEN FALSE
        ELSE IF 8 <= Val(hour) /\ Val(hour) <= 17 /\ Val(temp) > 0 THEN FALSE
        ELSE IF Val(temp) <= 0 THEN TRUE
        ELSE Val(temp) <= temp_limit /\ Val(wind) < 40

algorithm_comprehensive(temp, wind, cloud_cover, humidity, hour) ==
    LET cloud_factor == IF isna(cloud_cover) THEN 10
                        ELSE IF Val(cloud_cover) <= 20 THEN 15
                        ELSE IF Val(cloud_cover) <= 50 THEN 12
                        ELSE IF Val(cloud_cover) <= 80 THEN 10
                        ELSE 7
        temp_limit   == IF cloud_factor >= 14 THEN 30
                        ELSE IF cloud_factor >= 11 THEN 20 ELSE 10
    IN  IF isna(temp) \/ isna(wind) THEN FALSE
        ELSE IF 8 <= Val(hour) /\ Val(hour) <= 17 /\ Val(temp) > 0 THEN FALSE
        ELSE IF Val(temp) <= 0 THEN TRUE
        ELSE IF Val(temp) <= temp_limit /\ Val(wind) < 40 THEN TRUE
        ELSE IF ~isna(humidity) /\ Val(temp) <= 20 /\ Val(wind) < 30 /\ Val(humidity) > 85
             THEN TRUE
        ELSE FALSE

----------------------------------------------------------------------------
(* scripts/tune_frost_algorithm.py: load_historical_data and                *)
(* analyze_daytime_impact.  args is what the query returns from             *)
(* weather_historical (rows with a temperature and a wind speed), result    *)
(* what analyze_daytime_impact prints.                                       *)

HistoricalTables ==
    TablesOf([temperature_2m : {0 - 10, 0, 5, 20}, hour : {7, 8, 12, 17, 18}], MaxRows)

\* Labels that call a temperature up to 1.0 degree frost (variant for C28).
LoadHistoricalDataFrostToOne(rows) ==
    [i \in 1 .. Len(rows) |->
        [temperature_2m |-> rows[i].temperature_2m, hour |-> rows[i].hour,
         actual_frost |-> rows[i].temperature_2m <= 10,
         is_daytime |-> 8 <= rows[i].hour /\ rows[i].hour <= 17]]

\* df['actual_frost'] = df['temperature_2m'] <= 0
\* df['is_daytime'] = df['hour'].between(8, 17)
load_historical_data(rows) ==
    [i \in 1 .. Len(rows) |->
        [temperature_2m |-> rows[i].temperature_2m, hour |-> rows[i].hour,
         actual_frost |-> rows[i].temperature_2m <= 0,
         is_daytime |-> 8 <= rows[i].hour /\ rows[i].hour <= 17]]

analyze_daytime_impact(d) ==
    LET daytime_frost      == SelectSeq(d, LAMBDA r : r.is_daytime /\ r.actual_frost)
        daytime_frost_plus == SelectSeq(daytime_frost, LAMBDA r : r.temperature_2m > 0)
    IN  [daytime_frost |-> Len(daytime_frost), daytime_frost_plus |-> Len(daytime_frost_plus),
         branch |-> IF Len(daytime_frost_plus) = 0 THEN "safe" ELSE "warning"]

InitTune ==
    /\ args \in HistoricalTables
    /\ result = None
    /\ NoStore /\ IdleHarn /\ IdleMain

\* main(): df = load_historical_data(); analyze_daytime_impact(df)
Tune ==
    /\ result = None
    /\ result' = Some(analyze_daytime_impact(load_historical_data(args)))
    /\ UNCHANGED <<args, storeVars, harnVars, mainVars>>

SpecTune == InitTune /\ [][Tune]_vars

----------------------------------------------------------------------------
(* Properties of the orchestrator, read at the end of a run (Spec) *)

Ran(name) == \E i \in 1..Len(hist.steps) : hist.steps[i] = name

StepPos(name) == CHOOSE i \in 1..Len(hist.steps) : hist.steps[i] = name

InOrder(a, b) == (Ran(a) /\ Ran(b)) => StepPos(a) < StepPos(b)

\* The heartbeat rows the current run has appended.
RunHeartbeats == SubSeq(heartbeat, Len(hist.hb0) + 1, Len(heartbeat))

\* The rows of a table that carry the run_id of the current run.
RunRows(table) == {r \in table : r.run_id = run_id}

\* C1: a run that reaches its final step exits with status 0 exactly when no
\* run error was recorded, and with a non-zero status whenever one was recorded,
\* whichever step recorded it.
C1_ExitStatusTellsErrors ==
    (pc = "done" /\ Ran("exit")) =>
        /\ Val(exit_code) = 0 <=> errors = <<>>
        /\ errors # <<>> => Val(exit_code) # 0

FetchFailureContained ==
    /\ Ran("exit")
    /\ Len(errors) = 1 /\ errors[1].prefix = "Prognos misslyckades"
    /\ ~Ran("notify") /\ hist.email = "none" /\ hist.sms = "none"
    /\ weather_hourly = hist.rows0 /\ frost_warnings = hist.warn0

C4_FailedSendIsRecorded ==
    (pc = "done" /\ (hist.email \in {"false", "raises"} \/ hist.sms \in {"false", "raises"})) =>
        /\ \E i \in 1..Len(errors) : errors[i].prefix = "Notifikationsfel"
        /\ RunHeartbeats # <<>> => RunHeartbeats[1].status = "fail"
        /\ Ran("persist")

C8_WarningRowsMatchAnalysis ==
    (pc = "done" /\ hist.weather = "stored" /\ ~hist.dbfault) =>
        /\ Cardinality(RunRows(frost_warnings)) =
              Len(SelectSeq(df_fc, LAMBDA r : r.frost_risk_numeric > 0))
        /\ \A f \in RunRows(frost_warnings) : \E w \in RunRows(weather_hourly) :
              w.valid_time = f.valid_time /\ w.dataset = f.dataset

----------------------------------------------------------------------------
(* Properties of load_weather_data and load_frost_warnings (SpecStore, SpecTwice) *)

\* C6: on a store made by create_database_tables alone, load_frost_warnings
\* called with a table that has a row with frost_warning true completes without
\* error, stores those rows and returns their count.
C6_WarningsAreStored ==
    \A i \in 1..Len(log) :
        (/\ log[i].op = "load_frost_warnings" /\ log[i].failAt = 0
         /\ WarningRows(log[i].d) # <<>>) =>
            /\ ~log[i].raised
            /\ log[i].ret = Some(Len(WarningRows(log[i].d)))
            /\ \A k \in 1..Len(log[i].d) : log[i].d[k].frost_warning =>
                  \E f \in log[i].after : /\ f.valid_time = log[i].d[k].valid_time
                                          /\ f.dataset = log[i].d[k].dataset

\* The forecast_issue_time values submitted so far for a (valid_time, dataset) pair.
SubmittedIssues(valid_time, dataset) ==
    {k[3] : k \in {s \in submitted : s[1] = valid_time /\ s[2] = dataset}}

\* C7: after any sequence of load_weather_data calls, the row stored for a
\* (valid_time, dataset) pair is the one with the greatest forecast_issue_time
\* among all the rows ever submitted for that pair, whatever the order of the calls.
C7_LatestIssueWins ==
    \A r \in weather_hourly :
        \A issue \in SubmittedIssues(r.valid_time, r.dataset) :
            ~isna(issue) => (~isna(r.forecast_issue_time)
                             /\ Val(r.forecast_issue_time) >= Val(issue))

DistinctPairs(d) ==
    \A i, j \in 1..Len(d) :
        (d[i].valid_time = d[j].valid_time /\ d[i].dataset = d[j].dataset) => i = j

\* No two rows of the table share a valid_time, or no row has a forecast_issue_time.
OneRowPerTimeOrUnissued(d) ==
    \/ \A i \in 1..Len(d) : isna(d[i].forecast_issue_time)
    \/ \A i, j \in 1..Len(d) : d[i].valid_time = d[j].valid_time => i = j

NoPairTwice(rows) ==
    \A a, b \in rows : (a.valid_time = b.valid_time /\ a.dataset = b.dataset) => a = b

\* The rows of a table without their surrogate id.
Content(rows) == {[r EXCEPT !.id = 0] : r \in rows}

TwoWeatherCalls ==
    /\ Len(log) = 2
    /\ \A i \in 1..2 : log[i].op = "load_weather_data" /\ log[i].failAt = 0

TwiceAsOnce ==
    /\ ~log[1].raised /\ ~log[2].raised
    /\ log[1].ret = Some(Len(df)) /\ log[2].ret = Some(Len(df))
    /\ Content(log[2].after) = Content(log[1].after)

\* C9 as stated: for a table whose (valid_time, dataset) pairs are distinct,
\* two calls of load_weather_data leave the rows one call leaves, no pair is
\* ever stored twice, the second call does not raise and both calls return the
\* number of rows of the table.
C9_TwiceAsOnce ==
    /\ NoPairTwice(weather_hourly)
    /\ (TwoWeatherCalls /\ DistinctPairs(df)) => TwiceAsOnce

\* C9, amended: the same for a table whose pairs are distinct and in which,
\* unless every forecast_issue_time is absent, no two rows share a valid_time;
\* the rows are the same apart from their id.
C9_TwiceAsOnceOneRowPerTime ==
    /\ NoPairTwice(weather_hourly)
    /\ (TwoWeatherCalls /\ DistinctPairs(df) /\ OneRowPerTimeOrUnissued(df)) => TwiceAsOnce

C9_Witness ==
    /\ TwoWeatherCalls /\ DistinctPairs(df) /\ OneRowPerTimeOrUnissued(df)
    /\ Len(df) = 2 /\ ~isna(df[1].forecast_issue_time)
    /\ Cardinality(weather_hourly) = 2 /\ log[2].before # {}

----------------------------------------------------------------------------
(* Properties of calculate_advanced_frost_risk (SpecClassify) *)

\* C10: with temperature and wind speed present and temperature <= 0 the
\* result is ("hog", 3), for any wind speed, any cloud cover (or none), any
\* humidity (or none) and any hour of day (or none).
C10_FreezingIsHighRisk ==
    (/\ ~isna(result) /\ ~isna(args.temperature) /\ ~isna(args.wind_speed)
     /\ Val(args.temperature) <= 0) =>
        Val(result) = Risk("hog", 3)

\* Freezing at noon with strong wind under full cloud: the daytime filter and
\* every other rule step aside.
C10_Witness ==
    /\ ~isna(result) /\ ~isna(args.temperature) /\ Val(args.temperature) <= 0
    /\ args.hour_of_day = Some(12) /\ args.wind_speed = Some(100)
    /\ args.cloud_cover = Some(100)
    /\ Val(result).numeric = 3

InDaytime(hour_of_day) ==
    ~isna(hour_of_day) /\ Val(hour_of_day) >= 8 /\ Val(hour_of_day) <= 17

Classified ==
    ~isna(result) /\ ~isna(args.temperature) /\ ~isna(args.wind_speed)

\* C11: with temperature and wind speed present, an hour of day in 8..17 and a
\* temperature above 0 give ("ingen", 0) whatever wind speed, cloud cover and
\* humidity are; at a temperature of 0 or below the result is the one the same
\* input gets without an hour of day.
C11_DaytimeFilter ==
    Classified =>
        /\ (InDaytime(args.hour_of_day) /\ Val(args.temperature) > 0) =>
              Val(result) = Risk("ingen", 0)
        /\ Val(args.temperature) <= 0 =>
              Val(result) = calculate_advanced_frost_risk(args.temperature, args.wind_speed,
                                args.cloud_cover, args.humidity, None)

\* 1.0 degree at 17 o'clock, calm under a clear sky: low risk but for the hour.
C11_Witness ==
    /\ Classified /\ args.hour_of_day = Some(17) /\ args.temperature = Some(10)
    /\ args.wind_speed = Some(0) /\ args.cloud_cover = Some(0)
    /\ Val(result) = Risk("ingen", 0)

\* The table of C12, read off the arguments (tenths of a degree and of a m/s).
ThresholdTable(t, w, cloud_cover, humidity) ==
    IF ~isna(cloud_cover) /\ Val(cloud_cover) <= 20 /\ t <= 30 /\ w < 40
    THEN Risk("lag", 1)
    ELSE IF /\ ~isna(cloud_cover) /\ Val(cloud_cover) > 20 /\ Val(cloud_cover) <= 50
            /\ t <= 20 /\ w < 40
    THEN Risk("medel", 2)
    ELSE IF (isna(cloud_cover) \/ Val(cloud_cover) > 50) /\ t <= 10 /\ w < 40
    THEN Risk("medel", 2)
    ELSE IF ~isna(humidity) /\ Val(humidity) > 85 /\ t <= 20 /\ w < 30
    THEN Risk("medel", 2)
    ELSE Risk("ingen", 0)

\* C12: with wind speed present and temperature above 0, outside the daytime
\* filter, the result is low (1) under cloud cover <= 20 at temperature <= 3 and
\* wind < 4; medium (2) under 20 < cloud cover <= 50 at temperature <= 2 and
\* wind < 4; medium (2) under cloud cover > 50 or absent at temperature <= 1 and
\* wind < 4; otherwise medium (2) with humidity present and > 85 at
\* temperature <= 2 and wind < 3; and none (0) in every remaining case.
C12_ThresholdTable ==
    (Classified /\ Val(args.temperature) > 0 /\ ~InDaytime(args.hour_of_day)) =>
        Val(result) = ThresholdTable(Val(args.temperature), Val(args.wind_speed),
                                     args.cloud_cover, args.humidity)

\* 2.0 degrees at night under 80 percent cloud, wind 2.9 m/s, humidity 86:
\* above the cloud threshold of 1 degree, caught by the humidity rule.
C12_Witness ==
    /\ Classified /\ args.hour_of_day = Some(23) /\ args.temperature = Some(20)
    /\ args.wind_speed = Some(29) /\ args.cloud_cover = Some(80)
    /\ args.humidity = Some(86)
    /\ Val(result) = Risk("medel", 2)

\* C13: whenever temperature or wind speed is absent the result is
\* ("okand", 0), whatever the other arguments are, also at a temperature of 0
\* or below with the wind speed absent.
C13_MissingInputIsUnknown ==
    (~isna(result) /\ (isna(args.temperature) \/ isna(args.wind_speed))) =>
        Val(result) = Risk("okand", 0)

C13_Witness ==
    /\ ~isna(result) /\ args.temperature = Some(0 - 1) /\ isna(args.wind_speed)
    /\ args.hour_of_day = Some(12)
    /\ Val(result) = Risk("okand", 0)

----------------------------------------------------------------------------
(* Properties of the NotificationManager (SpecManager) *)

Sent == log[2]

TestFailed(outcome) == outcome \in {"test_false", "test_raises"}

\* C14: for a non-empty warning set, email is attempted exactly when the email
\* channel is active and the email recipient list is not empty, SMS exactly
\* when the SMS channel is active and some SMS recipient is enabled, whatever
\* the email attempt did; send_all_notifications never raises and any_sent
\* equals (email or sms).
C14_ChannelsIndependentNeverRaises ==
    (Len(log) = 2 /\ ~Sent.empty) =>
        /\ Sent.email # "skipped" <=> (email_notifier /\ cfg.email_recipients # "none")
        /\ Sent.sms # "skipped" <=> (sms_notifier /\ cfg.sms_recipients # "none")
        /\ ~Sent.result.raised
        /\ Sent.result.any_sent = (Sent.result.email \/ Sent.result.sms)

\* C15: after construction a channel is active only if it was enabled and its
\* connection test succeeded: a channel whose test returned false or raised is
\* inactive in get_notifier_status() and is never used by send_all_notifications.
C15_FailedTestDeactivates ==
    Len(log) >= 1 =>
        /\ email_notifier => (cfg.email_enabled /\ log[1].email_test = "ok")
        /\ sms_notifier => (cfg.sms_enabled /\ log[1].sms_test = "ok")
        /\ TestFailed(log[1].email_test) => ~email_notifier
        /\ TestFailed(log[1].sms_test) => ~sms_notifier
        /\ Len(log) = 2 =>
              /\ TestFailed(log[1].email_test) => Sent.email = "skipped"
              /\ TestFailed(log[1].sms_test) => Sent.sms = "skipped"

----------------------------------------------------------------------------
(* Properties of create_frost_sms_message (SpecCompose) *)

\* C16: for any non-empty warnings table and any location name the message
\* is never longer than 160 characters.
C16_MessageFitsOneSms ==
    (~isna(result) /\ args.warnings_df # <<>>) => LenMessage(Val(result)) <= 160

----------------------------------------------------------------------------
(* Properties of format_frost_warning_email (SpecFormat) *)

AgreeOn(a, b, cols) ==
    Len(a) = Len(b) /\ \A i \in 1..Len(a) : \A col \in cols : a[i][col] = b[i][col]

NamedColumns ==
    {"valid_time", "temperature_2m", "cloud_cover", "frost_risk_level", "frost_risk_numeric"}

\* C17 as stated: two warnings tables that agree on valid_time, temperature,
\* cloud cover, risk level and risk numeric but differ in any other field give
\* the same subject and HTML body, formatted at the same instant for the same
\* location.
C17_OnlyNamedColumnsShow ==
    (~isna(result) /\ AgreeOn(args.warnings_df, args.other, NamedColumns)) =>
        Val(result).first = Val(result).second

\* C17, amended: the same for two tables that also agree on temp_rolling_mean
\* (on having the column and on its values).
C17_OnlyNamedColumnsAndRollingMeanShow ==
    (~isna(result)
     /\ AgreeOn(args.warnings_df, args.other, NamedColumns \cup {"temp_rolling_mean"})) =>
        Val(result).first = Val(result).second

\* Two tables that differ in secret_field, and two that differ in wind speed,
\* each with two warning hours in the next 24 hours.
C17_Witness ==
    /\ ~isna(result) /\ args.warnings_df # args.other
    /\ AgreeOn(args.warnings_df, args.other, NamedColumns \cup {"temp_rolling_mean"})
    /\ Len(args.warnings_df) = 2 /\ Val(result).first.html_body.highest_risk = "hog"
    /\ Val(result).first = Val(result).second

----------------------------------------------------------------------------
(* Properties of fetch_with_retry (SpecRetry) *)

Gets == {i \in 1 .. Len(log) : log[i].op = "get"}
Failed(i) == i \in Gets /\ log[i].outcome # "ok"
Ended == pc = "done"

\* C18: with max_retries >= 1, fetch_with_retry issues at most max_retries GET
\* requests; it returns the parsed response of the first successful request
\* and issues no request after it; after the k-th failed attempt, k <
\* max_retries, the next thing it does is sleep backoff * k seconds, and after
\* the max_retries-th it does not sleep; when all max_retries attempts fail
\* the call ends by raising the failure of the last one.
C18_RetryProtocol ==
    args.max_retries >= 1 =>
        /\ Cardinality(Gets) <= args.max_retries
        /\ \A i \in Gets :
              /\ log[i].attempt + 1 = Cardinality({j \in Gets : j <= i})
              /\ log[i].outcome = "ok" =>
                    /\ i = Len(log) /\ \A j \in Gets : j < i => Failed(j)
                    /\ result = Some([kind |-> "return", json |-> log[i].attempt])
              /\ Failed(i) /\ log[i].attempt + 1 < args.max_retries =>
                    IF i = Len(log) THEN pc = "except"
                    ELSE log[i + 1].op = "sleep"
                         /\ log[i + 1].seconds = args.backoff * (log[i].attempt + 1)
              /\ Failed(i) /\ log[i].attempt + 1 = args.max_retries =>
                    /\ i = Len(log)
                    /\ Ended => result = Some([kind |-> "raise", exception |-> log[i].outcome])
        /\ \A i \in 1 .. Len(log) : log[i].op = "sleep" => i > 1 /\ Failed(i - 1)
        /\ Ended => Val(result).kind \in {"return", "raise"}
        /\ Ended /\ Val(result).kind = "return" => \E i \in Gets : log[i].outcome = "ok"
        /\ Ended /\ Val(result).kind = "raise" =>
              Cardinality({i \in Gets : Failed(i)}) = args.max_retries

\* Two failures, each followed by its sleep, then a success on the last attempt.
C18_Witness ==
    /\ Ended /\ args.max_retries = 3 /\ args.backoff = 2
    /\ result = Some([kind |-> "return", json |-> 2])
    /\ [i \in 1 .. Len(log) |-> log[i].op] = <<"get", "sleep", "get", "sleep", "get">>
    /\ log[2].seconds = 2 /\ log[4].seconds = 4

----------------------------------------------------------------------------
(* Properties of YrApiClient.fetch_forecast (SpecYr) *)

ExpiryNotPassed(cache, now) ==
    ~isna(cache) /\ ~isna(Val(cache).expires) /\ now < Val(Val(cache).expires).at

\* C19: in any sequence of fetch_forecast calls for one key, a call makes no
\* network request exactly when the key has a cached entry whose expiry has
\* not passed; otherwise it sends one request, with If-Modified-Since exactly
\* when the prior entry has a Last-Modified value; a 304 returns the cached
\* payload (an error without one), a success replaces the entry and returns
\* the new payload, a failure raises and leaves the cache as it was.
C19_CacheProtocol ==
    ~isna(result) =>
        LET call   == Val(result)
            before == call.cache_before
            did    == call.did
            resp   == call.response
        IN  /\ did.request = ~ExpiryNotPassed(before, call.now)
            /\ ~did.request =>
                  /\ did.outcome = [kind |-> "return", data |-> Val(before).data]
                  /\ did.cache_after = before
            /\ did.request =>
                  /\ ~isna(did.if_modified_since)
                        <=> (~isna(before) /\ ~isna(Val(before).last_modified))
                  /\ resp.kind = "not_modified" =>
                        /\ did.cache_after = before
                        /\ IF isna(before) THEN did.outcome.kind = "raise"
                           ELSE did.outcome = [kind |-> "return", data |-> Val(before).data]
                  /\ resp.kind = "ok" =>
                        /\ did.outcome = [kind |-> "return", data |-> resp.data]
                        /\ did.cache_after = Some([data |-> resp.data, expires |-> resp.expires,
                                                   last_modified |-> resp.last_modified])
                  /\ resp.kind \in {"http_error", "timeout"} =>
                        did.outcome.kind = "raise" /\ did.cache_after = before

----------------------------------------------------------------------------
(* Properties of the backfill tool (SpecBackfill) *)

Window(current_year) == (current_year - BackfillYears) .. (current_year - 1)
Finished(i) == i < run_id \/ pc = "idle"
Attempted(i) == {log[i].attempted[k] : k \in 1 .. Len(log[i].attempted)}
FailedIn(i) == log[i].failed_fetch \cup log[i].failed_save

\* What every run does: it attempts only years of the ten before the current
\* year that had no row when it began, each at most once, and all of them by
\* its end, whatever failed on the way (all ten on an empty table, none when
\* all ten are there); a year that failed has no row afterwards.
RunAttemptsMissingYears ==
    \A i \in 1 .. Len(log) :
        LET missing == Window(log[i].current_year) \ log[i].years
        IN  /\ Attempted(i) \subseteq missing
            /\ Cardinality(Attempted(i)) = Len(log[i].attempted)
            /\ Finished(i) => Attempted(i) = missing
            /\ log[i].count = 0 /\ Finished(i) => Attempted(i) = Window(log[i].current_year)
            /\ i = Len(log) => FailedIn(i) \cap YearsIn(submitted) = {}
            /\ i < Len(log) => FailedIn(i) \cap log[i + 1].years = {}

\* C20 as stated: each run attempts exactly the missing years of the ten
\* before the current year, each at most once, a failure stops no later
\* year, a failed year stays missing, and the next run attempts it again.
C20_NextRunRetriesFailedYear ==
    /\ RunAttemptsMissingYears
    /\ \A i \in 1 .. Len(log) - 1 :
          Finished(i + 1) => FailedIn(i) \subseteq Attempted(i + 1)

\* C20, amended: ... and the next run attempts it again if it is still one
\* of the ten years before that run's current year.
C20_NextRunRetriesFailedYearInWindow ==
    /\ RunAttemptsMissingYears
    /\ \A i \in 1 .. Len(log) - 1 :
          Finished(i + 1) =>
              FailedIn(i) \cap Window(log[i + 1].current_year) \subseteq Attempted(i + 1)

\* A run on an empty table attempts all ten years, one fails while it is
\* fetched and one while it is saved, and the next run attempts those two.
C20_Witness ==
    /\ run_id = 2 /\ pc = "idle"
    /\ log[1].count = 0 /\ Len(log[1].attempted) = BackfillYears
    /\ log[1].failed_fetch # {} /\ log[1].failed_save # {}
    /\ Attempted(2) = FailedIn(1)

----------------------------------------------------------------------------
(* Properties of transform_hourly_json (SpecTransform) *)

\* The value of a variable for timestamp i: absent when the provider left the
\* variable out or its list ends before i.
PayloadValue(col, i) ==
    IF isna(args[col]) \/ i > Len(Val(args[col])) THEN None ELSE Val(args[col])[i]

\* C21: for a payload with at least one timestamp the transformation does not
\* fail and returns one row per timestamp, in input order; a variable that was
\* omitted or has fewer values than there are timestamps is absent in the rows
\* without data.
C21_TransformToleratesMissingValues ==
    ~isna(result) /\ Len(args.time) >= 1 =>
        /\ Val(result).kind = "table"
        /\ Len(Val(result).rows) = Len(args.time)
        /\ \A i \in 1 .. Len(args.time) :
              /\ Val(result).rows[i].valid_time = args.time[i]
              /\ Val(result).rows[i].temperature_2m = PayloadValue("temperature_2m", i)
              /\ isna(Val(result).rows[i].wind_speed_10m) = isna(PayloadValue("wind_speed_10m", i))

----------------------------------------------------------------------------
(* Properties of the tuning harness against the classifier (SpecClassify) *)

\* C22: for present temperature and wind speed and an hour in 0..23, the
\* comprehensive variant of the tuning harness predicts risk exactly when
\* calculate_advanced_frost_risk gives a risk_numeric above 0 for the same
\* temperature, wind speed, cloud cover, humidity and hour.
C22_ComprehensiveMatchesClassifier ==
    Classified /\ ~isna(args.hour_of_day) =>
        algorithm_comprehensive(args.temperature, args.wind_speed, args.cloud_cover,
                                args.humidity, args.hour_of_day)
            = (Val(result).numeric > 0)

\* 2.0 degrees at night under an overcast sky, wind 2.9 m/s, humidity 86: only
\* the humidity rule gives the risk, in both.
C22_Witness ==
    /\ Classified /\ args.hour_of_day = Some(23) /\ args.temperature = Some(20)
    /\ args.wind_speed = Some(29) /\ args.cloud_cover = Some(100)
    /\ args.humidity = Some(86) /\ Val(result).numeric = 2
    /\ algorithm_comprehensive(args.temperature, args.wind_speed, args.cloud_cover,
                               args.humidity, args.hour_of_day)

----------------------------------------------------------------------------
(* Properties of create_enhanced_time_blocks and of the risk label (SpecFormat) *)

\* The warnings of a block that have a cloud cover value.
CloudedWarnings(d, key) ==
    SelectSeq(d, LAMBDA r : BlockKey(r) = key /\ ~isna(r.cloud_cover))

RECURSIVE CloudTotal(_)
CloudTotal(d) == IF d = <<>> THEN 0 ELSE Val(Head(d).cloud_cover) + CloudTotal(Tail(d))

\* C23: for every block of create_enhanced_time_blocks, avg_cloud_cover is the
\* arithmetic mean of cloud_cover over the warnings of the block that have a
\* cloud cover value, each warning counted once (avg = sum / count is written
\* avg_sum * count = sum * avg_count).
C23_AverageCloudCoverIsTheMean ==
    ~isna(result) =>
        LET blocks == create_enhanced_time_blocks(args.warnings_df, args.now)
        IN  \A i \in 1 .. Len(blocks) :
               LET with == CloudedWarnings(args.warnings_df, blocks[i].key)
               IN  with # <<>> =>
                      /\ ~blocks[i].cloud_nan
                      /\ blocks[i].cloud_sum * Len(with) = CloudTotal(with) * blocks[i].cloud_count

LabelSeverity(risk_text) ==
    IF risk_text = "HOG FROSTRISK" THEN 3 ELSE IF risk_text = "MEDEL FROSTRISK" THEN 2 ELSE 1

LevelSeverity(level) ==
    IF level = "hog" THEN 3 ELSE IF level = "medel" THEN 2 ELSE IF level = "lag" THEN 1 ELSE 0

\* C27: for a non-empty warnings table the risk label of the subject and the
\* header is never less severe than the highest risk among the warnings shown
\* in the time blocks of the email.
C27_LabelCoversRenderedRisk ==
    ~isna(result) /\ args.warnings_df # <<>> =>
        LET email == Val(result).first
        IN  \A i \in 1 .. Len(email.html_body.blocks) :
               /\ LabelSeverity(email.subject.risk_text)
                     >= LevelSeverity(email.html_body.blocks[i].risk)
               /\ LabelSeverity(email.html_body.recommendations)
                     >= LevelSeverity(email.html_body.blocks[i].risk)

----------------------------------------------------------------------------
(* Properties of the rows the load_* calls write (SpecTwice, SpecStore) *)

\* Row k of the table d has the latest forecast_issue_time of the rows of d
\* with its valid_time.
LatestOfItsTime(d, k) ==
    \A j \in 1 .. Len(d) : d[j].valid_time = d[k].valid_time => IssueKey(d[k]) >= IssueKey(d[j])

\* C24: every row that load_weather_data or load_frost_warnings writes is
\* field for field one row of its input table, the one with the latest
\* forecast_issue_time among the input rows of its valid_time; no stored row
\* has values of different input rows.
C24_StoredRowIsOneInputRow ==
    \A i \in 1 .. Len(log) :
        \A f \in log[i].after \ log[i].before :
            \E k \in 1 .. Len(log[i].d) :
                /\ LatestOfItsTime(log[i].d, k)
                /\ f = IF log[i].op = "load_weather_data"
                       THEN WeatherRecord(log[i].d[k], f.id)
                       ELSE FrostRecord(log[i].d[k], f.id)

----------------------------------------------------------------------------
(* Properties of the transaction of a load_* call (SpecTwice) *)

\* C25: a load_* call in which the insert of some row fails with an error
\* that is no unique-constraint violation raises, and the table holds exactly
\* the rows it held before the call.
C25_FailedCallStoresNothing ==
    \A i \in 1 .. Len(log) :
        /\ log[i].raised => log[i].after = log[i].before
        /\ (/\ log[i].op = "load_weather_data"
            /\ log[i].failAt > 0 /\ log[i].failAt <= Len(DedupWeather(log[i].d)))
              => log[i].raised

\* A second load_weather_data call whose second insert fails after its first
\* replaced a stored row: the two rows of the first call are still there.
C25_Witness ==
    /\ Len(log) = 2 /\ log[2].op = "load_weather_data" /\ log[1].op = "load_weather_data"
    /\ ~log[1].raised /\ log[2].raised /\ log[2].failAt = 2
    /\ Cardinality(log[2].before) = 2 /\ weather_hourly = log[2].before

----------------------------------------------------------------------------
(* Properties of fetch_with_retry for any max_retries (SpecRetry) *)

\* C26: for every max_retries, 0 and negative values too, fetch_with_retry
\* ends by returning the parsed response of a successful request or by
\* raising; it never returns without a result.
C26_ReturnsResponseOrRaises ==
    Ended => \/ Val(result).kind = "raise"
             \/ /\ Val(result).kind = "return"
                /\ \E i \in Gets : log[i].outcome = "ok" /\ log[i].attempt = Val(result).json

----------------------------------------------------------------------------
(* Properties of the daytime safety check of the tuning harness (SpecTune) *)

\* C28 as stated: there is a historical table for which
\* analyze_daytime_impact reaches its warning branch (whatever table the
\* harness has at hand, some table of at least its length does).
C28_SafetyCheckCanWarn ==
    \E d \in HistoricalTables :
        /\ Len(d) >= Len(args)
        /\ analyze_daytime_impact(load_historical_data(d)).branch = "warning"

\* C28, amended: for every historical table analyze_daytime_impact takes its
\* safe branch: no row labelled actual_frost has a temperature above 0.
C28_SafetyCheckNeverWarns ==
    ~isna(result) => Val(result).branch = "safe" /\ Val(result).daytime_frost_plus = 0

\* Frost at noon and 2.0 degrees at 8 o'clock: one daytime frost row, none
\* of them above 0, the safe branch.
C28_Witness ==
    /\ ~isna(result) /\ Len(args) = 2
    /\ args[1] = [temperature_2m |-> 0 - 10, hour |-> 12]
    /\ args[2] = [temperature_2m |-> 20, hour |-> 8]
    /\ Val(result).daytime_frost = 1 /\ Val(result).branch = "safe"

----------------------------------------------------------------------------
(* Order properties of calculate_advanced_frost_risk (SpecClassify) *)

\* The risk_numeric of the call at hand with another temperature, wind speed
\* or cloud cover.
NumericWith(temperature, wind_speed, cloud_cover) ==
    calculate_advanced_frost_risk(temperature, wind_speed, cloud_cover,
                                  args.humidity, args.hour_of_day).numeric

\* C29: for fixed cloud cover, humidity and hour, a higher temperature never
\* gives a higher risk_numeric at the same wind speed, and a higher wind speed
\* never gives a higher risk_numeric at the same temperature.
C29_MonotoneInTemperatureAndWind ==
    Classified =>
        /\ \A t \in Temperatures : t >= Val(args.temperature) =>
               NumericWith(Some(t), args.wind_speed, args.cloud_cover) <= Val(result).numeric
        /\ \A w \in WindSpeeds : w >= Val(args.wind_speed) =>
               NumericWith(args.temperature, Some(w), args.cloud_cover) <= Val(result).numeric

\* 3.0 degrees at night, wind 3.9 m/s, clear sky: low risk, and none at 3.1
\* degrees or at 4.0 m/s.
C29_Witness ==
    /\ Classified /\ args.temperature = Some(30) /\ args.wind_speed = Some(39)
    /\ args.cloud_cover = Some(0) /\ args.hour_of_day = Some(23)
    /\ Val(result).numeric = 1
    /\ NumericWith(Some(31), args.wind_speed, args.cloud_cover) = 0
    /\ NumericWith(args.temperature, Some(40), args.cloud_cover) = 0

============================================================================
